---- MODULE Spec2Model ----
(***************************************************************************)
(* Inventory-Search: the client's query cache (InventorySearchApiService,  *)
(* in its Map-based and its array-based version), the cache key, and the   *)
(* debounced, cancelable search pipeline of IndexPageComponent.            *)
(*                                                                         *)
(* Strings are sequences of UTF-16 code units, so that trim, toLowerCase,  *)
(* sort and join are computed as JavaScript computes them.                 *)
(***************************************************************************)
EXTENDS Integers, Sequences, FiniteSets, TLC

(***************************************************************************)
(* Program constants                                                       *)
(***************************************************************************)
CACHE_TTL_MS == 60000
CACHE_MAX_ENTRIES == 5
debounceMs == 50
pageSize == 20

(***************************************************************************)
(* Bounds of the model                                                     *)
(***************************************************************************)
\* distinct search criteria / part numbers offered to the empty service
NumQueries == 1
\* clock advances in one behaviour of the empty service
MaxTicks == 2
\* HTTP requests issued by the empty service in one behaviour
MaxCalls == 2
\* subscribers attached to one observable
MaxSubs == 2
\* clock advances in one behaviour of the filled service
CapTicks == 1
\* HTTP requests issued by the filled service in one behaviour
CapCalls == 1
\* distinct criteria / part numbers offered to the filled service: one more
\* than the cache holds
CapQueries == CACHE_MAX_ENTRIES + 1
\* queries the page dispatches in one behaviour
MaxGens == 2
\* queries the page dispatches in one behaviour of SpecSort
SortGens == 1
\* highest page index the page is asked for
MaxPage == 1
\* branches in a query whose key is computed
MaxBranches == 2
\* white space added around the criteria of a query whose key is computed
MaxPad == 2
\* observables alive at the same time: the cached ones and those in flight
MaxObs == CACHE_MAX_ENTRIES + CapCalls + MaxCalls

(***************************************************************************)
(* Strings                                                                 *)
(***************************************************************************)
S_PartNumber == <<80, 97, 114, 116, 78, 117, 109, 98, 101, 114>>
S_Description == <<68, 101, 115, 99, 114, 105, 112, 116, 105, 111, 110>>
S_partNumber == <<112, 97, 114, 116, 78, 117, 109, 98, 101, 114>>
S_branch == <<98, 114, 97, 110, 99, 104>>
S_asc == <<97, 115, 99>>
S_desc == <<100, 101, 115, 99>>
S_SEA == <<83, 69, 65>>
S_DEN == <<68, 69, 78>>
S_CLT == <<67, 76, 84>>
S_peak == <<112, 101, 97, 107, 58>>
S_colons == <<58, 58>>
S_colon == <<58>>
S_bar == <<124>>
S_SLC == <<83, 76, 67>>
S_STL == <<83, 84, 76>>
S_LAX == <<76, 65, 88>>

\* String.prototype.trim: strips white space (space, tab, LF, CR) at both ends
IsSpace(ch) == ch \in {32, 9, 10, 13}

RECURSIVE TrimStart(_)
TrimStart(s) ==
  IF s = <<>> THEN <<>>
  ELSE IF IsSpace(Head(s)) THEN TrimStart(Tail(s)) ELSE s

RECURSIVE TrimEnd(_)
TrimEnd(s) ==
  IF s = <<>> THEN <<>>
  ELSE IF IsSpace(s[Len(s)]) THEN TrimEnd(SubSeq(s, 1, Len(s) - 1)) ELSE s

Trim(s) == TrimEnd(TrimStart(s))

\* String.prototype.toLowerCase on the code units A-Z
ToLowerCase(s) == [i \in 1..Len(s) |-> IF s[i] >= 65 /\ s[i] <= 90 THEN s[i] + 32 ELSE s[i]]

\* Number.prototype.toString for a non-negative integer
RECURSIVE NumToString(_)
NumToString(n) ==
  IF n < 10 THEN <<48 + n>> ELSE NumToString(n \div 10) \o <<48 + (n % 10)>>

\* the order Array.prototype.sort() uses without a comparator: code units
RECURSIVE StrLess(_, _)
StrLess(a, b) ==
  IF b = <<>> THEN FALSE
  ELSE IF a = <<>> THEN TRUE
  ELSE IF Head(a) # Head(b) THEN Head(a) < Head(b)
  ELSE StrLess(Tail(a), Tail(b))

RECURSIVE Insert(_, _)
Insert(x, sorted) ==
  IF sorted = <<>> THEN <<x>>
  ELSE IF StrLess(x, Head(sorted)) THEN <<x>> \o sorted
  ELSE <<Head(sorted)>> \o Insert(x, Tail(sorted))

\* [...a].sort(): a stable ascending sort of a copy
RECURSIVE SortStrings(_)
SortStrings(a) ==
  IF a = <<>> THEN <<>>
  ELSE Insert(a[Len(a)], SortStrings(SubSeq(a, 1, Len(a) - 1)))

\* Array.prototype.join
RECURSIVE Join(_, _)
Join(parts, sep) ==
  IF parts = <<>> THEN <<>>
  ELSE IF Len(parts) = 1 THEN parts[1]
  ELSE parts[1] \o sep \o Join(Tail(parts), sep)

(***************************************************************************)
(* InventorySearchQuery and its cache key                                  *)
(***************************************************************************)
\* the optional sort property: absent, present but undefined or null, or a
\* value
NoSort == [kind |-> "absent", field |-> <<>>, direction |-> <<>>]
UndefinedSort == [kind |-> "undefined", field |-> <<>>, direction |-> <<>>]
NullSort == [kind |-> "null", field |-> <<>>, direction |-> <<>>]
SortOf(f, d) == [kind |-> "value", field |-> f, direction |-> d]

Query(criteria, by, branches, onlyAvailable, page, size, sort) ==
  [criteria |-> criteria, by |-> by, branches |-> branches,
   onlyAvailable |-> onlyAvailable, page |-> page, size |-> size, sort |-> sort]

\* q.sort ? `${field}:${direction}` : ''
SortText(sort) ==
  IF sort.kind = "value" THEN sort.field \o S_colon \o sort.direction ELSE <<>>

\* cacheKey joining the branches in the order given
cacheKeyUnsorted(q) ==
  Join(<<ToLowerCase(Trim(q.criteria)), q.by, Join(q.branches, S_bar),
         IF q.onlyAvailable THEN <<49>> ELSE <<48>>,
         NumToString(q.page), NumToString(q.size), SortText(q.sort)>>, S_colons)

cacheKey(q) ==
  Join(<<ToLowerCase(Trim(q.criteria)), q.by, Join(SortStrings(q.branches), S_bar),
         IF q.onlyAvailable THEN <<49>> ELSE <<48>>,
         NumToString(q.page), NumToString(q.size), SortText(q.sort)>>, S_colons)

\* `peak:${partNumber}`
peakKey(partNumber) == S_peak \o partNumber

(***************************************************************************)
(* State                                                                   *)
(***************************************************************************)
VARIABLES
  impl,         \* which InventorySearchApiService is built in: "map" or "array"
  now,          \* Date.now()
  ticks,        \* number of clock advances so far
  searchCache,  \* the search cache, entries in Map / array order
  peakCache,    \* the peak-availability cache
  obs,          \* the observables obs$ created by the service, by handle
  ret,          \* what the last call of search / getPeakAvailability returned
  httpCalls,    \* number of HTTP requests issued so far
  used,         \* how many distinct criteria / part numbers were offered so far
  q1,           \* a query
  q2,           \* the same query, varied in ways that must not change its key
  form,         \* IndexPageComponent.form.value
  sortState,    \* sortState$.value
  currentPage,  \* currentPage$.value
  due,          \* when the debounce timer fires, -1 when it is not armed
  inner,        \* the inner subscription of switchMap
  loading,      \* loading$.value
  toasts,       \* what was sent to the ToastService, in order
  shown,        \* the last value of search$, which items$ and total$ expose
  gens,         \* for each query dispatched so far, what became of it
  trigger       \* history, while the debounce timer runs: when searchTrigger$
                \* last emitted and what buildQuery would have returned then;
                \* kept in the specifications whose properties read it
VARIABLES
  _items,       \* MockInventoryRepository._items, the records of the server
  response      \* the request InventoryController is answering, its answer,
                \* and what the handler computed on the way

VARIABLES
  subscribed,   \* search$ of IndexPageComponent is subscribed to searchTrigger$:
                \* the template subscribed items$ and total$, destroy$ is silent
  resultsTable, \* ResultsTableComponent: its inputs and fields, what it emitted
                \* and sent to the ToastService, and its subscriptions
  appComponent, \* AppComponent: toasts and timers
  timeouts      \* the browser's timers: those set and not yet fired or cleared

svcVars == <<impl, now, ticks, searchCache, peakCache, obs, ret, httpCalls, used>>
keyVars == <<q1, q2>>
pageVars == <<form, sortState, currentPage, due, inner, loading, toasts, shown, gens,
              trigger>>
srvVars == <<_items, response>>
viewVars == <<subscribed, resultsTable, appComponent, timeouts>>
vars == <<svcVars, keyVars, pageVars, srvVars, viewVars>>

Handles == 1..MaxObs
NoHandle == 0

\* an unused slot of the observable table
FreeObs == [st |-> "free", subs |-> 0, cache |-> "none", key |-> <<>>]

\* no call has just returned
\* searchTrigger$ has not emitted since the debounce timer last fired
NoTrigger ==
  [at |-> -1, q |-> Query(<<>>, <<>>, <<>>, FALSE, 0, 0, NoSort)]

\* the history of triggers is not kept
Untracked ==
  [at |-> -2, q |-> Query(<<>>, <<>>, <<>>, FALSE, 0, 0, NoSort)]

NoRet ==
  [op |-> "none", arg |-> <<>>, key |-> <<>>, at |-> 0, hit |-> FALSE,
   obs |-> NoHandle, issued |-> FALSE, evicted |-> <<>>, swept |-> <<>>,
   found |-> -1, foundObs |-> NoHandle, foundSt |-> "none", pending |-> {},
   oldest |-> <<>>, readBefore |-> FALSE, trigger |-> NoTrigger,
   received |-> "none"]

(***************************************************************************)
(* Map<string, {expiry, obs$}> as the sequence of its entries in insertion *)
(* order (the order Map.prototype.keys() iterates in)                      *)
(***************************************************************************)
Keys(cache) == [i \in 1..Len(cache) |-> cache[i].key]

MapHas(m, k) == \E i \in 1..Len(m) : m[i].key = k

MapGet(m, k) == m[CHOOSE i \in 1..Len(m) : m[i].key = k]

MapDelete(m, k) == SelectSeq(m, LAMBDA e : e.key # k)

\* Map.prototype.set: an existing key keeps its position, a new key is last
MapSet(m, k, e) ==
  IF MapHas(m, k)
  THEN [i \in 1..Len(m) |-> IF m[i].key = k THEN e ELSE m[i]]
  ELSE Append(m, e)

(***************************************************************************)
(* The Map-based service                                                   *)
(***************************************************************************)
\* getCached leaving an expired entry where it is
getCachedKeepExpired(cache, key, t) ==
  IF ~MapHas(cache, key) \/ MapGet(cache, key).expiry < t
  THEN [cache |-> cache, hit |-> FALSE, obs |-> NoHandle]
  ELSE [cache |-> cache, hit |-> TRUE, obs |-> MapGet(cache, key).obs]

\* getCached moving the entry it returns to the newest position
getCachedPromote(cache, key, t) ==
  IF ~MapHas(cache, key) \/ MapGet(cache, key).expiry < t
  THEN [cache |-> MapDelete(cache, key), hit |-> FALSE, obs |-> NoHandle]
  ELSE [cache |-> Append(MapDelete(cache, key), MapGet(cache, key)),
        hit |-> TRUE, obs |-> MapGet(cache, key).obs]

getCached(cache, key, t) ==
  IF ~MapHas(cache, key) \/ MapGet(cache, key).expiry < t
  THEN [cache |-> MapDelete(cache, key), hit |-> FALSE, obs |-> NoHandle]
  ELSE [cache |-> cache, hit |-> TRUE, obs |-> MapGet(cache, key).obs]

\* trim comparing with the wrong limit
RECURSIVE trimOffByOne(_)
trimOffByOne(cache) ==
  IF Len(cache) > CACHE_MAX_ENTRIES + 1 THEN trimOffByOne(Tail(cache)) ELSE cache

RECURSIVE trim(_)
trim(cache) ==
  IF Len(cache) > CACHE_MAX_ENTRIES THEN trim(Tail(cache)) ELSE cache

rememberMap(cache, key, h, t, n) ==
  trim(MapSet(cache, key, [key |-> key, expiry |-> t + CACHE_TTL_MS, obs |-> h, born |-> n]))

(***************************************************************************)
(* The array-based service                                                 *)
(***************************************************************************)
\* the filter keeping the expired entries instead of the live ones
sweepInverted(cache, t) == SelectSeq(cache, LAMBDA e : e.expiry <= t)

\* this.cache.filter((entry) => entry.expiry > now)
sweep(cache, t) == SelectSeq(cache, LAMBDA e : e.expiry > t)

\* find with a comparison that never matches
findNever(cache, key) == [hit |-> FALSE, obs |-> NoHandle]

\* this.cache.find((entry) => entry.key === key)
find(cache, key) ==
  IF MapHas(cache, key)
  THEN [hit |-> TRUE,
        obs |-> cache[CHOOSE i \in 1..Len(cache) :
                        /\ cache[i].key = key
                        /\ \A j \in 1..(i - 1) : cache[j].key # key].obs]
  ELSE [hit |-> FALSE, obs |-> NoHandle]

\* remember dropping the newest entry (pop) instead of the oldest (shift)
rememberArrayPop(cache, key, h, t, n) ==
  LET pushed == Append(cache, [key |-> key, expiry |-> t + CACHE_TTL_MS, obs |-> h, born |-> n])
  IN IF Len(pushed) > CACHE_MAX_ENTRIES THEN SubSeq(pushed, 1, Len(pushed) - 1) ELSE pushed

rememberArray(cache, key, h, t, n) ==
  LET pushed == Append(cache, [key |-> key, expiry |-> t + CACHE_TTL_MS, obs |-> h, born |-> n])
  IN IF Len(pushed) > CACHE_MAX_ENTRIES THEN Tail(pushed) ELSE pushed

\* findIndex + splice(idx, 1): removes the first entry with the key
evict(cache, key) ==
  IF MapHas(cache, key)
  THEN LET idx == CHOOSE i \in 1..Len(cache) :
                    /\ cache[i].key = key
                    /\ \A j \in 1..(i - 1) : cache[j].key # key
       IN SubSeq(cache, 1, idx - 1) \o SubSeq(cache, idx + 1, Len(cache))
  ELSE cache

(***************************************************************************)
(* Both services behind one interface                                      *)
(***************************************************************************)
\* the look-up at the head of search / getPeakAvailability
Lookup(cache, key) ==
  IF impl = "map"
  THEN getCached(cache, key, now)
  ELSE LET live == sweep(cache, now)
           f == find(live, key)
       IN [cache |-> live, hit |-> f.hit, obs |-> f.obs]

\* born is not a field of the program's entry: it numbers the HTTP request the
\* entry was created for, so that "inserted earlier" can be stated
Remember(cache, key, h) ==
  IF impl = "map" THEN rememberMap(cache, key, h, now, httpCalls + 1)
  ELSE rememberArray(cache, key, h, now, httpCalls + 1)

\* the body of catchError: searchCache.delete(key) / evict(cache, key)
OnError(cache, key) ==
  IF impl = "map" THEN MapDelete(cache, key) ELSE evict(cache, key)

(***************************************************************************)
(* obs$ = http.get(..).pipe(shareReplay({bufferSize: 1, refCount: false}), *)
(* catchError(..)).  st is the state of the shared connection: "cold"      *)
(* before the first subscription and again after an error (shareReplay     *)
(* resets on error), "inflight" while the HTTP request is out, "ok" or     *)
(* "failEnv" once a response (a success or a failure envelope) is          *)
(* replayed.  subs counts the subscribers waiting for the response.        *)
(***************************************************************************)
Referenced(h, sc, pc) ==
  \/ \E i \in 1..Len(sc) : sc[i].obs = h
  \/ \E i \in 1..Len(pc) : pc[i].obs = h

\* an observable that is neither cached nor in flight is garbage
Collect(table, sc, pc) ==
  [h \in Handles |->
     IF table[h].st # "inflight" /\ ~Referenced(h, sc, pc) THEN FreeObs ELSE table[h]]

HasFree(table) == \E h \in Handles : table[h].st = "free"

FreeHandle(table) ==
  CHOOSE h \in Handles :
    table[h].st = "free" /\ \A g \in 1..(h - 1) : table[g].st # "free"

\* subscribing without shareReplay: every subscriber starts a request
subscribeUnshared(o) ==
  IF o.st \in {"cold", "inflight"}
  THEN [o |-> [o EXCEPT !.st = "inflight", !.subs = o.subs + 1], issued |-> TRUE]
  ELSE [o |-> o, issued |-> FALSE]

\* subscribing: the first subscriber of a cold connection starts the HTTP
\* request, a later one joins it or is replayed the response
subscribe(o) ==
  IF o.st = "cold" THEN [o |-> [o EXCEPT !.st = "inflight", !.subs = 1], issued |-> TRUE]
  ELSE IF o.st = "inflight" THEN [o |-> [o EXCEPT !.subs = o.subs + 1], issued |-> FALSE]
  ELSE [o |-> o, issued |-> FALSE]

RemovedKeys(before, after) ==
  SelectSeq(Keys(before), LAMBDA k : ~MapHas(after, k))

\* search(query).subscribe(..) / getPeakAvailability(pn).subscribe(..):
\* every caller in the repository subscribes to the returned handle at once
\* ret records, besides the returned handle, what the call found and did:
\*   found, foundObs, foundSt  expiry, handle and connection state of the entry
\*                             stored for the key before the call (found = -1
\*                             when there was none)
\*   pending                   the handles with a request in flight for the key
\*   swept, evicted            the keys the look-up and the capacity trim removed
\*   oldest                    the key inserted earliest among those in the cache
\*   readBefore                the evicted key was read by the call just before
\*   trigger                   the trigger the page made the call for
\*   received                  the response the page's inner pipe received
\*                             (history, kept where trigger is kept)
Oldest(cache) ==
  IF cache = <<>> THEN <<>>
  ELSE cache[CHOOSE i \in 1..Len(cache) :
               \A j \in 1..Len(cache) : cache[i].born <= cache[j].born].key

FetchFrom(table, sc, pc, name, arg, key, budget) ==
  LET before == IF name = "search" THEN sc ELSE pc
      other == IF name = "search" THEN pc ELSE sc
      lk == Lookup(before, key)
      obs1 == Collect(table, lk.cache, other)
      h == IF lk.hit THEN lk.obs
           ELSE IF HasFree(obs1) THEN FreeHandle(obs1) ELSE NoHandle
      o == IF lk.hit THEN obs1[h]
           ELSE [st |-> "cold", subs |-> 0, cache |-> name, key |-> key]
      sub == subscribe(o)
      cache2 == IF lk.hit THEN lk.cache ELSE Remember(lk.cache, key, h)
      evicted == IF lk.hit THEN <<>> ELSE RemovedKeys(lk.cache, cache2)
      had == MapHas(before, key)
  IN [ok |-> /\ h # NoHandle
             /\ (sub.issued => httpCalls < budget)
             /\ (o.st = "inflight" => o.subs < MaxSubs),
      cache |-> cache2,
      obs |-> IF h = NoHandle THEN table
              ELSE Collect([obs1 EXCEPT ![h] = sub.o], cache2, other),
      ret |-> [op |-> name, arg |-> arg, key |-> key, at |-> now, hit |-> lk.hit,
               obs |-> h, issued |-> sub.issued,
               evicted |-> evicted,
               swept |-> RemovedKeys(before, lk.cache),
               found |-> IF had THEN MapGet(before, key).expiry ELSE -1,
               foundObs |-> IF had THEN MapGet(before, key).obs ELSE NoHandle,
               foundSt |-> IF had THEN table[MapGet(before, key).obs].st ELSE "none",
               pending |-> {g \in Handles : /\ table[g].st = "inflight"
                                            /\ table[g].cache = name
                                            /\ table[g].key = key},
               oldest |-> Oldest(before),
               readBefore |-> /\ evicted # <<>>
                              /\ ret.op = name
                              /\ ret.hit
                              /\ ret.key = evicted[1],
               trigger |-> NoTrigger,
               received |-> "none"]]

(***************************************************************************)
(* Inputs of the service                                                   *)
(***************************************************************************)
\* criteria "q<i>" and, normalising to the same key, " Q<i> "
Criteria(i, v) == IF v = 1 THEN <<113, 48 + i>> ELSE <<32, 81, 48 + i, 32>>

SvcQuery(i, v) ==
  Query(Criteria(i, v), S_PartNumber, <<>>, FALSE, 0, pageSize, NoSort)

\* search / getPeakAvailability called on the service as it is
Fetch(table, name, arg, key, budget) ==
  FetchFrom(table, searchCache, peakCache, name, arg, key, budget)

PartNo(i) == <<80, 48 + i>>

Deltas == {1, CACHE_TTL_MS - 1}

(***************************************************************************)
(* IndexPageComponent: its state and the callbacks of the inner pipe       *)
(* api.search(query).pipe(tap, map, catchError, finalize)                  *)
(***************************************************************************)
allBranches == <<S_CLT, S_DEN, S_SLC, S_SEA, S_STL, S_LAX>>

\* switchMap has no inner subscription
NoInner == [gen |-> 0, h |-> NoHandle, cancelled |-> FALSE]

\* searchTrigger$.next() at time t, the state then being what q is built from
Triggered(t, q) == IF trigger = Untracked THEN Untracked ELSE [at |-> t, q |-> q]

\* search$ has not emitted yet
NoShown == [gen |-> 0, value |-> "none"]

InfoCancelled == [level |-> "info", text |-> "Previous search cancelled."]

\* toastService.error(resp.message ?? 'Search failed') in map and
\* toastService.error(err?.message ?? 'Search failed') in catchError: the text
\* is the message the failure came with
ErrorToast(outcome) ==
  [level |-> "error",
   text |-> IF outcome = "failEnv" THEN "resp.message" ELSE "err.message"]

\* the constructor and ngOnInit, items$ subscribed by the template
PageConstructed ==
  /\ form = [criteria |-> <<>>, by |-> S_PartNumber, branches |-> allBranches,
             onlyAvailable |-> FALSE]
  /\ sortState = [field |-> S_partNumber, direction |-> S_asc]
  /\ currentPage = 0
  /\ due = -1
  /\ inner = NoInner
  /\ loading = FALSE
  /\ toasts = <<>>
  /\ shown = NoShown
  /\ gens = <<>>

\* Validators.required on by
formValid == form.by # <<>>

\* buildQuery over a form value, a sort state and a page index
QueryOf(f, s, p) ==
  Query(f.criteria, f.by, f.branches, f.onlyAvailable, p, pageSize,
        SortOf(s.field, s.direction))

buildQuery == QueryOf(form, sortState, currentPage)

\* a timer that is not restarted by a trigger arriving while it runs
debounceNoRestart(pending, t) == IF pending >= 0 THEN pending ELSE t + debounceMs

\* debounceTime(debounceMs): a trigger at time t (re)starts the timer, pending
\* being when it would have fired
debounceTime(pending, t) == t + debounceMs

\* the query computed when the trigger was issued
queryAtTrigger(atTrigger, atElapse) == atTrigger

\* map(() => buildQuery()) sits after debounceTime and filter: the query is
\* built when the timer fires
queryDispatched(atTrigger, atElapse) == atElapse

\* the fields the table can be sorted by
SortableFields == {S_partNumber, S_branch}

isSortable(field) == field \in SortableFields

\* the direction flipped whatever the field
nextDirectionToggle(current, field) ==
  IF current.direction = S_asc THEN S_desc ELSE S_asc

\* onSort: desc when the field is already sorted asc, asc otherwise
nextDirection(current, field) ==
  IF current.field = field /\ current.direction = S_asc THEN S_desc ELSE S_asc

\* finalize announcing a cancellation whatever the flag says
finalizeAlways(cancelled, ts) == Append(ts, InfoCancelled)

\* finalize(() => { if (cancelled) toastService.info(..); .. })
finalize(cancelled, ts) == IF cancelled THEN Append(ts, InfoCancelled) ELSE ts

\* what map / catchError hand on to search$ for generation g
Emitted(g, outcome) ==
  [gen |-> g, value |-> IF outcome = "ok" THEN "resp.data" ELSE "{total: -1, items: []}"]

\* a failure that is swallowed without a notice
ReportedSilently(outcome, ts) == finalize(FALSE, ts)

\* the toasts of a response: tap clears the flag, map / catchError report a
\* failure, completion runs finalize
Reported(outcome, ts) ==
  finalize(FALSE, IF outcome = "ok" THEN ts ELSE Append(ts, ErrorToast(outcome)))

\* the inner subscription left running when a new one is made
TeardownNone(in, table, cache, ts, gs) ==
  [obs |-> table, cache |-> cache, toasts |-> ts, gens |-> gs]

\* an unsubscription that also gives the entry of the request a new expiry
TeardownRefreshing(in, table, cache, ts, gs) ==
  IF in = NoInner THEN [obs |-> table, cache |-> cache, toasts |-> ts, gens |-> gs]
  ELSE [obs |-> [table EXCEPT ![in.h].subs = table[in.h].subs - 1],
        cache |-> [i \in 1..Len(cache) |->
                     IF cache[i].key = table[in.h].key
                     THEN [cache[i] EXCEPT !.expiry = now + CACHE_TTL_MS]
                     ELSE cache[i]],
        toasts |-> finalize(in.cancelled, ts),
        gens |-> [gs EXCEPT ![in.gen] = "cancelled"]]

\* switchMap unsubscribes the inner subscription it has: the subscription on
\* obs$ is dropped and finalize runs; no callback of the service runs, so the
\* cache is left as it is
Teardown(in, table, cache, ts, gs) ==
  IF in = NoInner THEN [obs |-> table, cache |-> cache, toasts |-> ts, gens |-> gs]
  ELSE [obs |-> [table EXCEPT ![in.h].subs = table[in.h].subs - 1],
        cache |-> cache,
        toasts |-> finalize(in.cancelled, ts),
        gens |-> [gs EXCEPT ![in.gen] = "cancelled"]]

\* the finalize of the previous inner subscription running after the project
\* function
loadingTeardownLast(wasActive, inflight) == inflight /\ ~wasActive

\* loading$ after switchMap has switched: finalize of the previous inner
\* subscription sets it false, then the project function sets it true, then a
\* replayed response completes the new inner pipe, whose finalize sets it false
loadingAfterSwitch(wasActive, inflight) == inflight

\* the response of handle h reaches the page whatever it is subscribed to
DeliverAny(h, outcome) ==
  IF inner # NoInner
  THEN /\ toasts' = Reported(outcome, toasts)
       /\ shown' = Emitted(inner.gen, outcome)
       /\ gens' = [gens EXCEPT ![inner.gen] = "settled"]
       /\ inner' = NoInner
       /\ loading' = FALSE
       /\ UNCHANGED <<form, sortState, currentPage, due, trigger>>
  ELSE UNCHANGED pageVars

\* the response of handle h reaches the page if its inner subscription is on h
Deliver(h, outcome) ==
  IF inner # NoInner /\ inner.h = h
  THEN /\ toasts' = Reported(outcome, toasts)
       /\ shown' = Emitted(inner.gen, outcome)
       /\ gens' = [gens EXCEPT ![inner.gen] = "settled"]
       /\ inner' = NoInner
       /\ loading' = FALSE
       /\ UNCHANGED <<form, sortState, currentPage, due, trigger>>
  ELSE UNCHANGED pageVars

(***************************************************************************)
(* AppComponent: the toasts it displays and the timers that clear them.    *)
(* timeouts is the browser's side of setTimeout / clearTimeout: next is    *)
(* the handle the next setTimeout returns, live the timers that were set   *)
(* and have neither fired nor been cleared.                                *)
(***************************************************************************)
maxToasts == 3
autoClearMs == 5000

\* the values Date.now() + Math.random() can take within one millisecond: a
\* double near 2^40 has 12 bits left for the fraction, so the sum is one of
\* 4096 numbers, RandomSteps of them here
RandomSteps == 2
\* toasts arriving in one behaviour
MaxArrivals == 4
\* clock advances in one behaviour of AppComponent
MaxAppTicks == 2

\* id: Date.now() + Math.random(), in units of 1 / RandomSteps ms
ToastId(t, r) == t * RandomSteps + r

NoTimeouts == [next |-> 1, live |-> {}]

\* the fields of a new AppComponent
AppConstructed == [toasts |-> <<>>, timers |-> <<>>]

\* the ids of the toasts of a list
ToastIds(list) == {list[i].id : i \in 1..Len(list)}

\* updateToasts(next): the timers of the toasts that are not in next are
\* cleared and deleted, then toasts = next
updateToasts(app, tmo, next) ==
  LET keep == ToastIds(next)
      cleared == {app.timers[i].timer : i \in {j \in 1..Len(app.timers) :
                                                app.timers[j].key \notin keep}}
  IN [app |-> [toasts |-> next,
               timers |-> SelectSeq(app.timers, LAMBDA e : e.key \in keep)],
      tmo |-> [tmo EXCEPT !.live = {t \in tmo.live : t.timer \notin cleared}]]

\* startTimer(toast): setTimeout(() => this.dismiss(toast.id), autoClearMs)
\* and timers.set(toast.id, timer)
startTimer(app, tmo, toast, t) ==
  IF autoClearMs <= 0 THEN [app |-> app, tmo |-> tmo]
  ELSE [app |-> [app EXCEPT !.timers =
                   MapSet(app.timers, toast.id, [key |-> toast.id, timer |-> tmo.next])],
        tmo |-> [next |-> tmo.next + 1,
                 live |-> tmo.live \cup {[timer |-> tmo.next, id |-> toast.id,
                                          due |-> t + autoClearMs]}]]

\* dismiss(id): updateToasts(toasts.filter((toast) => toast.id !== id))
dismissed(app, tmo, id) ==
  updateToasts(app, tmo, SelectSeq(app.toasts, LAMBDA toast : toast.id # id))

\* enqueueToast(message) at time t, Math.random() giving r; at and n are not
\* fields of the program's entry: they keep when the toast arrived and as
\* which one
enqueued(app, tmo, message, t, r) ==
  LET toast == [level |-> message.level, text |-> message.text,
                id |-> ToastId(t, r), at |-> t, n |-> tmo.next]
      all == <<toast>> \o app.toasts
      next == SubSeq(all, 1, IF Len(all) < maxToasts THEN Len(all) ELSE maxToasts)
      updated == updateToasts(app, tmo, next)
  IN startTimer(updated.app, updated.tmo, toast, t)

(***************************************************************************)
(* ResultsTableComponent                                                   *)
(***************************************************************************)
\* an object without a property
NoProperties == [key \in {} |-> FALSE]

NoMessage == "null"

\* the inputs and fields of a new ResultsTableComponent; pageChange and
\* toasts keep what it emitted and what it sent to the ToastService, lookups
\* its subscriptions to the service, settled those that ended in the last
\* step, fetches how many it started
TableConstructed ==
  [total |-> 0, pageSize |-> 20, pageIndex |-> 0, expanded |-> NoProperties,
   peakLoading |-> NoProperties, peakByPart |-> NoProperties,
   errorMessage |-> NoMessage, pageChange |-> <<>>, toasts |-> <<>>,
   lookups |-> <<>>, settled |-> <<>>, fetches |-> 0]

\* Math.ceil(a / b) for a divisor above zero
Ceil(a, b) == -((-a) \div b)

\* totalPages(total, size): Math.max(1, Math.ceil((total ?? 0) / (size || 1)))
totalPages(total, size) ==
  LET pages == Ceil(total, IF size = 0 THEN 1 ELSE size)
  IN IF pages < 1 THEN 1 ELSE pages

\* goTo emitting the page it was given
goneToUnclamped(t, page) ==
  IF page = t.pageIndex THEN t
  ELSE [t EXCEPT !.pageIndex = page, !.pageChange = Append(@, page)]

\* goTo(page): the component after the call
goneTo(t, page) ==
  LET last == totalPages(t.total, t.pageSize) - 1
      low == IF page > 0 THEN page ELSE 0
      high == IF last > 0 THEN last ELSE 0
      next == IF low < high THEN low ELSE high
  IN IF next = t.pageIndex THEN t
     ELSE [t EXCEPT !.pageIndex = next, !.pageChange = Append(@, next)]

\* itemKey(item): `${item.partNumber}|${item.branch}`
itemKey(item) == item.partNumber \o S_bar \o item.branch

\* peakByPart[key]: null, or the PeakAvailability of a part number
NoData == [has |-> FALSE, v |-> <<>>]
PeakData(partNumber) == [has |-> TRUE, v |-> partNumber]

\* object[key] = value
Assign(object, key, value) ==
  [k \in (DOMAIN object) \cup {key} |-> IF k = key THEN value ELSE object[k]]

\* the head of fetchPeakAvailability: errorMessage = null and
\* peakLoading[key] = true, before the service is called
lookupStarted(t, key) ==
  [t EXCEPT !.errorMessage = NoMessage, !.peakLoading = Assign(@, key, TRUE),
            !.settled = <<>>, !.fetches = @ + 1]

\* the callbacks of a lookup with finalize left out of the error path
lookupSettledNoFinalize(t, key, partNumber, outcome) ==
  [t EXCEPT !.peakLoading = Assign(@, key, outcome # "error"),
            !.peakByPart = Assign(@, key, IF outcome = "ok" THEN PeakData(partNumber)
                                          ELSE NoData),
            !.errorMessage = IF outcome = "ok" THEN NoMessage ELSE ErrorToast(outcome).text,
            !.toasts = IF outcome = "ok" THEN @ ELSE Append(@, ErrorToast(outcome)),
            !.settled = Append(@, [key |-> key, outcome |-> outcome])]

\* the callbacks of a lookup of key: next with the data, next with a failure
\* envelope or error, and then finalize
lookupSettled(t, key, partNumber, outcome) ==
  [t EXCEPT !.peakLoading = Assign(@, key, FALSE),
            !.peakByPart = Assign(@, key, IF outcome = "ok" THEN PeakData(partNumber)
                                          ELSE NoData),
            !.errorMessage = IF outcome = "ok" THEN NoMessage ELSE ErrorToast(outcome).text,
            !.toasts = IF outcome = "ok" THEN @ ELSE Append(@, ErrorToast(outcome)),
            !.settled = Append(@, [key |-> key, outcome |-> outcome])]

\* the subscribers of handle h among pending are called back in the order
\* they subscribed in
RECURSIVE lookupsSettled(_, _, _, _)
lookupsSettled(t, pending, h, outcome) ==
  IF pending = <<>> THEN t
  ELSE lookupsSettled(IF Head(pending).h = h
                      THEN lookupSettled(t, Head(pending).key, Head(pending).partNumber,
                                         outcome)
                      ELSE t,
                      Tail(pending), h, outcome)

\* the table when the response of handle h arrives
Delivered(t, h, outcome) ==
  [lookupsSettled([t EXCEPT !.settled = <<>>], t.lookups, h, outcome)
     EXCEPT !.lookups = SelectSeq(t.lookups, LAMBDA l : l.h # h)]

\* fetchPeakAvailability(item), the service having returned handle h whose
\* connection is in state st after the subscription: a response that is
\* cached is replayed within the subscription
lookedUp(t, item, h, st) ==
  LET key == itemKey(item)
      started == lookupStarted(t, key)
  IN IF st = "inflight"
     THEN [started EXCEPT !.lookups = Append(@, [key |-> key, h |-> h,
                                                  partNumber |-> item.partNumber])]
     ELSE lookupSettled(started, key, item.partNumber, st)

\* the components of the view as they are constructed, the template
\* subscribed to items$ and total$
ViewConstructed ==
  /\ subscribed = TRUE
  /\ resultsTable = TableConstructed
  /\ appComponent = AppConstructed
  /\ timeouts = NoTimeouts

(***************************************************************************)
(* The server (.NET): strings, Int32 and LINQ as InventoryService,         *)
(* InventoryController and MockInventoryRepository use them.  The strings  *)
(* of the model are made of letters, digits, the space, ',' and ':'.       *)
(***************************************************************************)
MaxPageSize == 200
int_MaxValue == 2147483647
int_MinValue == (-int_MaxValue) - 1
\* DateTime values are counted in days; DateTime.MaxValue is 9999-12-31
DateTime_MinValue == 0
DateTime_MaxValue == 3652058

S_SupplierSku == <<83, 117, 112, 112, 108, 105, 101, 114, 83, 107, 117>>
S_description == <<100, 101, 115, 99, 114, 105, 112, 116, 105, 111, 110>>
S_supplierSku == <<115, 117, 112, 112, 108, 105, 101, 114, 83, 107, 117>>
S_lots == <<108, 111, 116, 115>>
S_LOTS == <<76, 79, 84, 83>>
S_availableqty == <<97, 118, 97, 105, 108, 97, 98, 108, 101, 113, 116, 121>>
S_uom == <<117, 111, 109>>
S_partnumber == <<112, 97, 114, 116, 110, 117, 109, 98, 101, 114>>
S_leadtimedays == <<108, 101, 97, 100, 116, 105, 109, 101, 100, 97, 121, 115>>
S_leadTimeDays == <<108, 101, 97, 100, 84, 105, 109, 101, 68, 97, 121, 115>>
S_lastpurchasedate ==
  <<108, 97, 115, 116, 112, 117, 114, 99, 104, 97, 115, 101, 100, 97, 116, 101>>
S_lastPurchaseDate ==
  <<108, 97, 115, 116, 80, 117, 114, 99, 104, 97, 115, 101, 68, 97, 116, 101>>
S_price == <<112, 114, 105, 99, 101>>
S_up == <<117, 112>>
S_DESC == <<68, 69, 83, 67>>
S_comma == <<44>>
S_space == <<32>>

\* string.IsNullOrWhiteSpace
IsNullOrWhiteSpace(s) == \A i \in 1..Len(s) : IsSpace(s[i])

\* string.ToLowerInvariant on the characters of the model
ToLowerInvariant(s) == ToLowerCase(s)

\* string.Equals(a, b, StringComparison.OrdinalIgnoreCase)
EqualsIgnoreCase(a, b) == ToLowerInvariant(a) = ToLowerInvariant(b)

\* string.Contains(value): an ordinal search; the empty string is found
Contains(s, value) ==
  \E i \in 0..Len(s) :
    /\ i + Len(value) <= Len(s)
    /\ SubSeq(s, i + 1, i + Len(value)) = value

\* string.Split(separator, StringSplitOptions.RemoveEmptyEntries)
RECURSIVE Split(_, _, _)
Split(s, separator, part) ==
  IF s = <<>> THEN (IF part = <<>> THEN <<>> ELSE <<part>>)
  ELSE IF Head(s) = separator
       THEN (IF part = <<>> THEN <<>> ELSE <<part>>) \o Split(Tail(s), separator, <<>>)
       ELSE Split(Tail(s), separator, part \o <<Head(s)>>)

\* Comparer<string>.Default, the culture's comparison, on letters, digits and
\* the space: the space before the digits before the letters, the letters in
\* alphabetical order whatever their case, and where two strings differ in
\* case only, the one with the lower-case letter at the first difference first
IsUpper(ch) == ch >= 65 /\ ch <= 90
IsLower(ch) == ch >= 97 /\ ch <= 122

PrimaryWeight(ch) ==
  IF IsUpper(ch) THEN 100 + (ch - 65)
  ELSE IF IsLower(ch) THEN 100 + (ch - 97)
  ELSE ch

CompareStrings(a, b) ==
  LET wa == [i \in 1..Len(a) |-> PrimaryWeight(a[i])]
      wb == [i \in 1..Len(b) |-> PrimaryWeight(b[i])]
      ca == [i \in 1..Len(a) |-> IF IsUpper(a[i]) THEN 1 ELSE 0]
      cb == [i \in 1..Len(b) |-> IF IsUpper(b[i]) THEN 1 ELSE 0]
  IN IF wa # wb THEN (IF StrLess(wa, wb) THEN -1 ELSE 1)
     ELSE IF ca = cb THEN 0
     ELSE IF StrLess(ca, cb) THEN -1 ELSE 1

\* a reference that is null, a Nullable<T> that has no value
NullString == [has |-> FALSE, v |-> <<>>]
NullValue == [has |-> FALSE, v |-> 0]
Some(x) == [has |-> TRUE, v |-> x]

\* i.Branch ?? string.Empty
OrEmpty(s) == IF s.has THEN s.v ELSE <<>>

\* Comparer<string>.Default on references: null before every string
CompareNullable(a, b) ==
  IF ~a.has THEN (IF b.has THEN -1 ELSE 0)
  ELSE IF ~b.has THEN 1
  ELSE CompareStrings(a.v, b.v)

\* Comparer<int>.Default, Comparer<DateTime>.Default
CompareNumbers(a, b) == IF a < b THEN -1 ELSE IF a > b THEN 1 ELSE 0

\* a * b in Int32 arithmetic, unchecked, for 0 <= a <= int.MaxValue and
\* 0 <= b <= MaxPageSize: the low 32 bits of the product, read as signed
Int32Mul(a, b) ==
  LET low == (a % 65536) * b
      hi16 == ((a \div 65536) * b + (low \div 65536)) % 65536
      lo16 == low % 65536
  IN IF hi16 >= 32768 THEN (hi16 - 65536) * 65536 + lo16
     ELSE hi16 * 65536 + lo16

\* Enumerable.Skip: a count of zero or less skips nothing
Skip(source, count) ==
  IF count <= 0 THEN source
  ELSE IF count >= Len(source) THEN <<>>
  ELSE SubSeq(source, count + 1, Len(source))

\* Enumerable.Take
Take(source, count) ==
  IF count <= 0 THEN <<>>
  ELSE IF count >= Len(source) THEN source
  ELSE SubSeq(source, 1, count)

\* Enumerable.OrderBy(..).ThenBy(..).ToList(): a stable sort; compare[j, i]
\* compares the keys of the j-th and the i-th element, and elements with
\* equal keys keep their order
OrderBy(source, compare) ==
  LET before(i) ==
        Cardinality({j \in 1..Len(source) :
                       \/ compare[j, i] < 0
                       \/ compare[j, i] = 0 /\ j < i})
  IN [k \in 1..Len(source) |->
        source[CHOOSE i \in 1..Len(source) : before(i) = k - 1]]

(***************************************************************************)
(* InventoryItem and the repository.  InventoryService is written against  *)
(* IInventoryRepository, so the records it works on are any list of items: *)
(* here the lists without repetition over a catalogue of four records that *)
(* share part numbers, differ in the case of a letter, tie on sort keys,   *)
(* and lack a branch, a lead time or a purchase date.                      *)
(***************************************************************************)
\* records in the repository
MaxItems == 3

S_B2 == <<66, 50>>
S_A1 == <<65, 49>>
S_a1 == <<97, 49>>
S_b2 == <<98, 50>>
S_K1 == <<75, 49>>
S_K2 == <<75, 50>>
S_K3 == <<75, 51>>
S_K4 == <<75, 52>>
S_ab == <<97, 98>>
S_cd == <<99, 100>>
S_GB == <<71, 66>>
S_KB == <<75, 66>>
S_sea == <<115, 101, 97>>
S_den_SEA == <<100, 101, 110, 44, 32, 83, 69, 65>>

InventoryItem(partNumber, sku, description, branch, uom, leadTime, purchased, qty) ==
  [PartNumber |-> partNumber, SupplierSku |-> sku, Description |-> description,
   Branch |-> branch, Uom |-> uom, LeadTimeDays |-> leadTime,
   LastPurchaseDate |-> purchased, Lots |-> <<>>, AvailableQty |-> qty]

Catalogue ==
  <<InventoryItem(S_B2, S_K1, S_ab, Some(S_SEA), S_GB, Some(7), Some(20), 5),
    InventoryItem(S_A1, S_K2, S_B2, Some(S_DEN), S_GB, NullValue, NullValue, 3),
    InventoryItem(S_a1, S_K3, S_cd, NullString, S_KB, Some(7), Some(10), 0),
    InventoryItem(S_A1, S_K4, S_K1, Some(S_DEN), S_KB, Some(2), Some(20), 2)>>

Injective(f) == \A i, j \in DOMAIN f : f[i] = f[j] => i = j

Repositories ==
  {[i \in DOMAIN f |-> Catalogue[f[i]]] :
     f \in UNION {{g \in [1..n -> 1..Len(Catalogue)] : Injective(g)} :
                  n \in 0..MaxItems}}

\* MockInventoryRepository.GetAllItemsAsync: _items.ToList(), a new list of
\* the stored records
GetAllItemsAsync(stored) == stored

\* MockInventoryRepository.FindByPartNumberAsync
FindByPartNumberAsync(stored, partNumber) ==
  IF IsNullOrWhiteSpace(partNumber) THEN <<>>
  ELSE SelectSeq(stored, LAMBDA i : EqualsIgnoreCase(i.PartNumber, partNumber))

\* what _items holds after a handler has worked on the list the repository
\* handed out: Where, OrderBy, Skip, Take and ToList build new lists
StoredHandedAsList(stored, working) == working
StoredAfter(stored, working) == stored

(***************************************************************************)
(* InventoryService                                                        *)
(***************************************************************************)
InventorySearchRequest(criteria, by, branches, onlyAvailable, page, size, sort) ==
  [Criteria |-> criteria, By |-> by, Branches |-> branches,
   OnlyAvailable |-> onlyAvailable, Page |-> page, Size |-> size, Sort |-> sort]

\* request.Sort?.Split(':', RemoveEmptyEntries), then the trimmed first part
\* and the trimmed second part, "asc" when there is none
ParseSort(sort) ==
  LET sortParts == Split(sort, 58, <<>>)
  IN [sortField |-> IF Len(sortParts) > 0 THEN Trim(sortParts[1]) ELSE <<>>,
      sortDirection |-> IF Len(sortParts) > 1 THEN Trim(sortParts[2]) ELSE S_asc]

\* the field the criteria are looked for in: the switch on request.By
CriteriaField(by, i) ==
  IF by = S_Description THEN i.Description
  ELSE IF by = S_SupplierSku THEN i.SupplierSku
  ELSE i.PartNumber

\* the criteria filter keeps the item: both sides in lower case
CriteriaKeeps(criteria, field) ==
  Contains(ToLowerInvariant(field), ToLowerInvariant(criteria))

FilterByCriteria(workingItems, request) ==
  IF ~IsNullOrWhiteSpace(request.Criteria)
  THEN SelectSeq(workingItems,
                 LAMBDA i : CriteriaKeeps(request.Criteria, CriteriaField(request.By, i)))
  ELSE workingItems

\* request.Branches.Split(',', RemoveEmptyEntries)
\*   .Select(b => b.Trim().ToLowerInvariant()).ToHashSet()
BranchSet(branches) ==
  LET parts == Split(branches, 44, <<>>)
  IN {ToLowerInvariant(Trim(parts[k])) : k \in 1..Len(parts)}

\* the branch filter keeps the item
BranchKeeps(branchSet, i) == ToLowerInvariant(OrEmpty(i.Branch)) \in branchSet

FilterByBranches(workingItems, request) ==
  IF ~IsNullOrWhiteSpace(request.Branches)
  THEN SelectSeq(workingItems, LAMBDA i : BranchKeeps(BranchSet(request.Branches), i))
  ELSE workingItems

\* the availability filter keeps the item
AvailableKeepsZero(i) == i.AvailableQty >= 0
AvailableKeeps(i) == i.AvailableQty > 0

FilterByAvailable(workingItems, request) ==
  IF request.OnlyAvailable THEN SelectSeq(workingItems, AvailableKeeps)
  ELSE workingItems

\* the key comparison of each case of the switch on sortField, ascending
CompareBy(field, a, b) ==
  IF field = S_availableqty THEN CompareNumbers(a.AvailableQty, b.AvailableQty)
  ELSE IF field = S_description THEN CompareStrings(a.Description, b.Description)
  ELSE IF field = S_branch THEN CompareNullable(a.Branch, b.Branch)
  ELSE IF field = S_uom THEN CompareStrings(a.Uom, b.Uom)
  ELSE CompareStrings(a.PartNumber, b.PartNumber)

\* OrderBy(i => i.X.HasValue ? 0 : 1)
AbsentFirst(x) == IF x.has THEN 1 ELSE 0
AbsentLast(x) == IF x.has THEN 0 ELSE 1

\* OrderBy(HasValue ? 0 : 1).ThenBy(X ?? max) and, descending,
\* OrderBy(HasValue ? 0 : 1).ThenByDescending(X ?? min)
CompareNullableKey(x, y, isDescending, min, max) ==
  IF AbsentLast(x) # AbsentLast(y) THEN CompareNumbers(AbsentLast(x), AbsentLast(y))
  ELSE IF isDescending
       THEN CompareNumbers(IF y.has THEN y.v ELSE min, IF x.has THEN x.v ELSE min)
       ELSE CompareNumbers(IF x.has THEN x.v ELSE max, IF y.has THEN y.v ELSE max)

\* the comparison the sort of workingItems uses
SortCompare(field, isDescending, a, b) ==
  IF field = S_leadtimedays
  THEN CompareNullableKey(a.LeadTimeDays, b.LeadTimeDays, isDescending,
                          int_MinValue, int_MaxValue)
  ELSE IF field = S_lastpurchasedate
  THEN CompareNullableKey(a.LastPurchaseDate, b.LastPurchaseDate, isDescending,
                          DateTime_MinValue, DateTime_MaxValue)
  ELSE IF isDescending THEN CompareBy(field, b, a)
  ELSE CompareBy(field, a, b)

\* lines 58-98: no sort at all when the sort field is blank
Sort(workingItems, sortField, sortDirection) ==
  IF ~IsNullOrWhiteSpace(sortField)
  THEN OrderBy(workingItems,
               [j, i \in 1..Len(workingItems) |->
                  SortCompare(ToLowerInvariant(sortField),
                              EqualsIgnoreCase(sortDirection, S_desc),
                              workingItems[j], workingItems[i])])
  ELSE workingItems

\* the page index alone, the size left out of the offset
SkipCountOfPage(request) == IF request.Page < 0 THEN 0 ELSE request.Page
\* safePage * safeSize, an Int32
SkipCount(request) ==
  Int32Mul(IF request.Page < 0 THEN 0 ELSE request.Page,
           IF request.Size <= 0 THEN 20 ELSE request.Size)

\* lines 102-108
PageOf(workingItems, request) ==
  Take(Skip(workingItems, SkipCount(request)),
       IF request.Size <= 0 THEN 20 ELSE request.Size)

\* SearchInventoryAsync: what it returns (Total, Items) and the lists it went
\* through on the way
SearchInventoryAsync(request, stored) ==
  LET all == GetAllItemsAsync(stored)
      parsed == ParseSort(request.Sort)
      byCriteria == FilterByCriteria(all, request)
      byBranches == FilterByBranches(byCriteria, request)
      byAvailable == FilterByAvailable(byBranches, request)
      sorted == Sort(byAvailable, parsed.sortField, parsed.sortDirection)
  IN [Total |-> Len(sorted), Items |-> PageOf(sorted, request),
      all |-> all, byCriteria |-> byCriteria, byBranches |-> byBranches,
      byAvailable |-> byAvailable, sorted |-> sorted,
      sortField |-> parsed.sortField, sortDirection |-> parsed.sortDirection]

\* .GroupBy(i => i.Branch ?? string.Empty): the keys in the order they are
\* first met
RECURSIVE GroupKeys(_, _)
GroupKeys(source, seen) ==
  IF source = <<>> THEN <<>>
  ELSE LET key == OrEmpty(Head(source).Branch)
       IN IF key \in seen THEN GroupKeys(Tail(source), seen)
          ELSE <<key>> \o GroupKeys(Tail(source), seen \cup {key})

\* Enumerable.Sum
RECURSIVE Sum(_)
Sum(numbers) == IF numbers = <<>> THEN 0 ELSE Head(numbers) + Sum(Tail(numbers))

\* g.Sum(i => i.AvailableQty) for the group of one key
GroupQtyFirst(source, key) ==
  LET g == SelectSeq(source, LAMBDA i : OrEmpty(i.Branch) = key)
  IN g[1].AvailableQty
GroupQty(source, key) ==
  LET g == SelectSeq(source, LAMBDA i : OrEmpty(i.Branch) = key)
  IN Sum([k \in 1..Len(g) |-> g[k].AvailableQty])

\* GetPeakAvailabilityAsync
GetPeakAvailabilityAsync(partNumber, stored) ==
  IF IsNullOrWhiteSpace(partNumber)
  THEN [PartNumber |-> partNumber, TotalAvailable |-> 0, Branches |-> <<>>,
        items |-> <<>>]
  ELSE LET found == FindByPartNumberAsync(stored, partNumber)
           keys == GroupKeys(found, {})
           grouped == [k \in 1..Len(keys) |->
                         [Branch |-> keys[k], Qty |-> GroupQty(found, keys[k])]]
       IN [PartNumber |-> partNumber,
           TotalAvailable |-> Sum([k \in 1..Len(grouped) |-> grouped[k].Qty]),
           Branches |-> grouped, items |-> found]

(***************************************************************************)
(* InventoryController                                                     *)
(***************************************************************************)
\* the query parameters of GET api/inventory/search
SearchParams(criteria, by, branches, onlyAvailable, page, size, sort, fail) ==
  [criteria |-> criteria, by |-> by, branches |-> branches,
   onlyAvailable |-> onlyAvailable, page |-> page, size |-> size, sort |-> sort,
   fail |-> fail]

\* HashSet<string>(StringComparer.OrdinalIgnoreCase).Contains
ContainsIgnoreCase(set, s) == \E m \in set : EqualsIgnoreCase(m, s)

AllowedSearchByFields == {S_PartNumber, S_Description, S_SupplierSku}

AllowedSortFields ==
  {<<>>, S_partnumber, S_description, S_availableqty, S_branch, S_uom,
   S_leadtimedays, S_lastpurchasedate}

\* lines 69-71
NotSortable(sortField) ==
  /\ ~IsNullOrWhiteSpace(sortField)
  /\ \/ EqualsIgnoreCase(sortField, S_supplierSku)
     \/ EqualsIgnoreCase(sortField, S_lots)

\* line 89
SizeUnbounded(size) == size <= 0
SizeInvalid(size) == size <= 0 \/ size > MaxPageSize

\* lines 64-112: the message of the check that rejects the request, "" when
\* every check passes
Rejection(p) ==
  LET parsed == ParseSort(p.sort)
  IN IF NotSortable(parsed.sortField)
     THEN "supplierSku and lots are not sortable fields."
     ELSE IF p.fail THEN "Simulated failure requested."
     ELSE IF p.page < 0 THEN "Page must be zero or greater."
     ELSE IF SizeInvalid(p.size) THEN "Size must be between 1 and 200."
     ELSE IF ~ContainsIgnoreCase(AllowedSearchByFields, p.by)
     THEN "Search field must be one of: PartNumber, Description, SupplierSku."
     ELSE IF ~ContainsIgnoreCase(AllowedSortFields, ToLowerInvariant(parsed.sortField))
     THEN "Sort field is not supported."
     ELSE IF /\ ~EqualsIgnoreCase(parsed.sortDirection, S_asc)
             /\ ~EqualsIgnoreCase(parsed.sortDirection, S_desc)
     THEN "Sort direction must be asc or desc."
     ELSE ""

\* lines 114-125
RequestOf(p) ==
  LET parsed == ParseSort(p.sort)
  IN InventorySearchRequest(p.criteria, p.by, p.branches, p.onlyAvailable, p.page,
                            p.size,
                            IF IsNullOrWhiteSpace(parsed.sortField) THEN <<>>
                            ELSE parsed.sortField \o S_colon \o parsed.sortDirection)

\* line 128
NoInventoryNever(result) == FALSE
NoInventory(result) == result.Total = 0

\* the engine was not called
NoResult ==
  [Total |-> 0, Items |-> <<>>, all |-> <<>>, byCriteria |-> <<>>,
   byBranches |-> <<>>, byAvailable |-> <<>>, sorted |-> <<>>,
   sortField |-> <<>>, sortDirection |-> <<>>]

NoAvailability ==
  [PartNumber |-> <<>>, TotalAvailable |-> 0, Branches |-> <<>>, items |-> <<>>]

NoParams == SearchParams(<<>>, <<>>, <<>>, FALSE, 0, 0, <<>>, FALSE)

\* no request is being answered
NoResponse ==
  [op |-> "none", params |-> NoParams, partNumber |-> <<>>, status |-> "none",
   message |-> "", invoked |-> FALSE, request |-> RequestOf(NoParams),
   result |-> NoResult, availability |-> NoAvailability]

\* InventoryController.Search: the status and the message of the answer,
\* whether _inventoryService was called, with what, and what it returned
SearchAnswer(p, stored) ==
  LET rejection == Rejection(p)
      request == RequestOf(p)
      result == SearchInventoryAsync(request, stored)
  IN IF rejection # ""
     THEN [NoResponse EXCEPT !.op = "search", !.params = p,
                             !.status = "BadRequest", !.message = rejection]
     ELSE [NoResponse EXCEPT !.op = "search", !.params = p,
                             !.status = IF NoInventory(result) THEN "NotFound" ELSE "Ok",
                             !.message = IF NoInventory(result)
                                         THEN "No inventory found for the provided criteria."
                                         ELSE "",
                             !.invoked = TRUE, !.request = request,
                             !.result = result]

\* InventoryController.GetPeakAvailability
PeakAnswer(partNumber, stored) ==
  LET availability == GetPeakAvailabilityAsync(partNumber, stored)
  IN IF IsNullOrWhiteSpace(partNumber)
     THEN [NoResponse EXCEPT !.op = "peak", !.partNumber = partNumber,
                             !.status = "BadRequest",
                             !.message = "Part number is required."]
     ELSE [NoResponse EXCEPT !.op = "peak", !.partNumber = partNumber,
                             !.status = IF Len(availability.Branches) = 0
                                        THEN "NotFound" ELSE "Ok",
                             !.message = IF Len(availability.Branches) = 0
                                         THEN "Part number not found." ELSE "",
                             !.invoked = TRUE, !.availability = availability]

\* the server before its first request, no record stored
ServerIdle ==
  /\ _items = <<>>
  /\ response = NoResponse

(***************************************************************************)
(* Actions of the service                                                  *)
(***************************************************************************)
\* new InventorySearchApiService(http, baseUrl): both caches empty
Constructed ==
  /\ impl \in {"map", "array"}
  /\ now = 0
  /\ ticks = 0
  /\ searchCache = <<>>
  /\ peakCache = <<>>
  /\ obs = [h \in Handles |-> FreeObs]
  /\ ret = NoRet
  /\ httpCalls = 0
  /\ used = [c \in {"search", "peak"} |-> 0]

SvcInit ==
  /\ Constructed
  /\ PageConstructed
  /\ ServerIdle
  /\ ViewConstructed
  /\ trigger = Untracked
  /\ q1 = SvcQuery(1, 1)
  /\ q2 = q1

search(q, budget) ==
  LET f == Fetch(obs, "search", q.criteria, cacheKey(q), budget)
  IN /\ f.ok
     /\ searchCache' = f.cache
     /\ obs' = f.obs
     /\ ret' = f.ret
     /\ httpCalls' = httpCalls + (IF f.ret.issued THEN 1 ELSE 0)
     /\ UNCHANGED <<impl, now, ticks, peakCache, keyVars, srvVars, viewVars, pageVars>>

getPeakAvailability(partNumber, budget) ==
  LET f == Fetch(obs, "peak", partNumber, peakKey(partNumber), budget)
  IN /\ f.ok
     /\ peakCache' = f.cache
     /\ obs' = f.obs
     /\ ret' = f.ret
     /\ httpCalls' = httpCalls + (IF f.ret.issued THEN 1 ELSE 0)
     /\ UNCHANGED <<impl, now, ticks, searchCache, keyVars, srvVars, viewVars, pageVars>>

\* the HTTP response of the request behind handle h arrives: the service's
\* catchError runs, then the callbacks of the page and of the table
Respond(h, outcome) ==
  LET o == obs[h]
      failed == outcome = "error" /\ o.subs > 0
      sc == IF failed /\ o.cache = "search" THEN OnError(searchCache, o.key)
            ELSE searchCache
      pc == IF failed /\ o.cache = "peak" THEN OnError(peakCache, o.key)
            ELSE peakCache
      o2 == IF outcome = "error" THEN [o EXCEPT !.st = "cold", !.subs = 0]
            ELSE [o EXCEPT !.st = outcome, !.subs = 0]
  IN /\ o.st = "inflight"
     /\ searchCache' = sc
     /\ peakCache' = pc
     /\ obs' = Collect([obs EXCEPT ![h] = o2], sc, pc)
     /\ ret' = (IF trigger # Untracked /\ inner # NoInner /\ inner.h = h
                THEN [NoRet EXCEPT !.op = "response", !.received = outcome]
                ELSE NoRet)
     /\ Deliver(h, outcome)
     /\ resultsTable' = Delivered(resultsTable, h, outcome)
     /\ UNCHANGED <<impl, now, ticks, httpCalls, used, keyVars, srvVars, subscribed,
                    appComponent, timeouts>>

\* a subscriber other than the page unsubscribes before the response
Unsubscribe(h) ==
  /\ obs[h].st = "inflight"
  /\ obs[h].subs > (IF inner.h = h THEN 1 ELSE 0)
  /\ obs' = [obs EXCEPT ![h].subs = obs[h].subs - 1]
  /\ ret' = NoRet
  /\ UNCHANGED <<impl, now, ticks, searchCache, peakCache, httpCalls, used, keyVars, srvVars, viewVars,
                 pageVars>>

\* the clock advances; an armed debounce timer fires before it is passed
Tick(d, bound) ==
  /\ ticks < bound
  /\ due < 0 \/ now + d <= due
  /\ now' = now + d
  /\ ticks' = ticks + 1
  /\ ret' = NoRet
  /\ UNCHANGED <<impl, searchCache, peakCache, obs, httpCalls, used, keyVars, srvVars, viewVars, pageVars>>

\* criteria and part numbers are opaque to the service: one that was not
\* offered before is taken to be the next of the enumeration; the two caches
\* are separate objects and a behaviour exercises one of them
Offer(c, i) ==
  /\ i <= used[c] + 1
  /\ \A d \in {"search", "peak"} \ {c} : used[d] = 0
  /\ used' = [used EXCEPT ![c] = IF i > used[c] THEN i ELSE used[c]]

SvcNext ==
  \/ \E i \in 1..NumQueries, v \in 1..2 :
       Offer("search", i) /\ search(SvcQuery(i, v), MaxCalls)
  \/ \E i \in 1..NumQueries :
       Offer("peak", i) /\ getPeakAvailability(PartNo(i), MaxCalls)
  \/ \E h \in Handles, outcome \in {"ok", "failEnv", "error"} : Respond(h, outcome)
  \/ \E h \in Handles : Unsubscribe(h)
  \/ \E d \in Deltas : Tick(d, MaxTicks)

\* the service from its construction on
SpecSvc == SvcInit /\ [][SvcNext]_vars

(***************************************************************************)
(* The service with one cache filled to its capacity: the state after      *)
(* CACHE_MAX_ENTRIES distinct requests were issued and answered at time 0. *)
(* The two caches are separate objects, so a behaviour here uses the cache *)
(* that was filled.                                                        *)
(***************************************************************************)
Prefill == CACHE_MAX_ENTRIES

FilledKey(c, i) == IF c = "search" THEN cacheKey(SvcQuery(i, 1)) ELSE peakKey(PartNo(i))

Filled(c) ==
  [i \in 1..Prefill |->
     [key |-> FilledKey(c, i), expiry |-> CACHE_TTL_MS, obs |-> i, born |-> i]]

CapInit ==
  /\ impl \in {"map", "array"}
  /\ now = 0
  /\ ticks = 0
  /\ \E c \in {"search", "peak"} :
       /\ searchCache = IF c = "search" THEN Filled(c) ELSE <<>>
       /\ peakCache = IF c = "peak" THEN Filled(c) ELSE <<>>
       /\ obs = [h \in Handles |->
                   IF h <= Prefill
                   THEN [st |-> "ok", subs |-> 0, cache |-> c, key |-> FilledKey(c, h)]
                   ELSE FreeObs]
       /\ used = [d \in {"search", "peak"} |-> IF d = c THEN Prefill ELSE 0]
  /\ ret = NoRet
  /\ httpCalls = Prefill
  /\ PageConstructed
  /\ ServerIdle
  /\ ViewConstructed
  /\ trigger = Untracked
  /\ q1 = SvcQuery(1, 1)
  /\ q2 = q1

CapNext ==
  \/ \E i \in 1..CapQueries, v \in 1..2 :
       /\ used["search"] > 0
       /\ Offer("search", i)
       /\ search(SvcQuery(i, v), Prefill + CapCalls)
  \/ \E i \in 1..CapQueries :
       /\ used["peak"] > 0
       /\ Offer("peak", i)
       /\ getPeakAvailability(PartNo(i), Prefill + CapCalls)
  \/ \E h \in Handles, outcome \in {"ok", "failEnv", "error"} : Respond(h, outcome)
  \/ \E h \in Handles : Unsubscribe(h)
  \/ \E d \in Deltas : Tick(d, CapTicks)

SpecCap == CapInit /\ [][CapNext]_vars

\* the filled service with a clock that passes the expiry of the entries it
\* was filled with in one step
OrderNext ==
  \/ \E i \in 1..CapQueries, v \in 1..2 :
       /\ used["search"] > 0
       /\ Offer("search", i)
       /\ search(SvcQuery(i, v), Prefill + CapCalls)
  \/ \E i \in 1..CapQueries :
       /\ used["peak"] > 0
       /\ Offer("peak", i)
       /\ getPeakAvailability(PartNo(i), Prefill + CapCalls)
  \/ \E h \in Handles, outcome \in {"ok", "failEnv", "error"} : Respond(h, outcome)
  \/ \E d \in {1, CACHE_TTL_MS + 1} : Tick(d, CapTicks)

SpecOrder == CapInit /\ [][OrderNext]_vars

(***************************************************************************)
(* Actions of IndexPageComponent                                           *)
(***************************************************************************)
\* the user edits the criteria field
SetCriteria(c) ==
  /\ form.criteria # c
  /\ form' = [form EXCEPT !.criteria = c]
  /\ ret' = NoRet
  /\ UNCHANGED <<impl, now, ticks, searchCache, peakCache, obs, httpCalls, used, keyVars, srvVars, viewVars,
                 sortState, currentPage, due, inner, loading, toasts, shown, gens,
                 trigger>>

\* the by control is cleared or set
SetBy(b) ==
  /\ form.by # b
  /\ form' = [form EXCEPT !.by = b]
  /\ ret' = NoRet
  /\ UNCHANGED <<impl, now, ticks, searchCache, peakCache, obs, httpCalls, used, keyVars, srvVars, viewVars,
                 sortState, currentPage, due, inner, loading, toasts, shown, gens,
                 trigger>>

\* onSearch (also onEnterKey and the first search of ngAfterViewInit)
onSearch ==
  /\ Len(gens) < MaxGens
  /\ formValid
  /\ currentPage' = 0
  /\ due' = debounceTime(due, now)
  /\ trigger' = Triggered(now, QueryOf(form, sortState, 0))
  /\ ret' = NoRet
  /\ UNCHANGED <<impl, now, ticks, searchCache, peakCache, obs, httpCalls, used, keyVars, srvVars, viewVars,
                 form, sortState, inner, loading, toasts, shown, gens>>

\* a page change that also puts the sort back to what the page starts with
onPageChangeResetSort(pageIndex) ==
  /\ Len(gens) < MaxGens
  /\ currentPage' = pageIndex
  /\ sortState' = [field |-> S_partNumber, direction |-> S_asc]
  /\ due' = debounceTime(due, now)
  /\ trigger' = Triggered(now, QueryOf(form, sortState', pageIndex))
  /\ ret' = NoRet
  /\ UNCHANGED <<impl, now, ticks, searchCache, peakCache, obs, httpCalls, used, keyVars, srvVars, viewVars,
                 form, inner, loading, toasts, shown, gens>>

onPageChange(pageIndex) ==
  /\ Len(gens) < MaxGens
  /\ currentPage' = pageIndex
  /\ due' = debounceTime(due, now)
  /\ trigger' = Triggered(now, QueryOf(form, sortState, pageIndex))
  /\ ret' = NoRet
  /\ UNCHANGED <<impl, now, ticks, searchCache, peakCache, obs, httpCalls, used, keyVars, srvVars, viewVars,
                 form, sortState, inner, loading, toasts, shown, gens>>

onSort(field) ==
  /\ Len(gens) < MaxGens
  /\ isSortable(field)
  /\ sortState' = [field |-> field, direction |-> nextDirection(sortState, field)]
  /\ currentPage' = 0
  /\ due' = debounceTime(due, now)
  /\ trigger' = Triggered(now, QueryOf(form, sortState', 0))
  /\ ret' = NoRet
  /\ UNCHANGED <<impl, now, ticks, searchCache, peakCache, obs, httpCalls, used, keyVars, srvVars, viewVars,
                 form, inner, loading, toasts, shown, gens>>

\* time passes until the debounce timer is due
Await ==
  /\ ticks < MaxTicks
  /\ due >= 0
  /\ now < due
  /\ now' = due
  /\ ticks' = ticks + 1
  /\ ret' = NoRet
  /\ UNCHANGED <<impl, searchCache, peakCache, obs, httpCalls, used, keyVars, srvVars, viewVars, pageVars>>

\* debounceTime emits the pending trigger: filter, map(buildQuery) and switchMap, which
\* unsubscribes the inner subscription it has (running its finalize) and then
\* calls the project function and subscribes to what it returns; a cached
\* response is replayed, and the inner pipe completes, within the subscription
Flush ==
  /\ due >= 0
  /\ due' = -1
  /\ trigger' = (IF trigger = Untracked THEN Untracked ELSE NoTrigger)
  /\ IF ~formValid
     THEN UNCHANGED <<impl, now, ticks, searchCache, peakCache, obs, ret, httpCalls, used,
                      keyVars, srvVars, form, sortState, currentPage, inner, loading, toasts,
                      shown, gens>>
     ELSE LET q == queryDispatched(trigger.q, buildQuery)
              active == inner # NoInner
              td == Teardown(inner, obs, searchCache, toasts, gens)
              f == FetchFrom(td.obs, td.cache, peakCache, "search", q.criteria,
                             cacheKey(q), MaxCalls)
              g == Len(gens) + 1
              st == f.obs[f.ret.obs].st
          IN /\ f.ok
             /\ searchCache' = f.cache
             /\ obs' = f.obs
             /\ ret' = [f.ret EXCEPT !.trigger = trigger,
                                     !.received = IF st = "inflight" \/ trigger = Untracked
                                                  THEN "none" ELSE st]
             /\ httpCalls' = httpCalls + (IF f.ret.issued THEN 1 ELSE 0)
             /\ loading' = loadingAfterSwitch(active, st = "inflight")
             /\ IF st = "inflight"
                THEN /\ inner' = [gen |-> g, h |-> f.ret.obs, cancelled |-> TRUE]
                     /\ toasts' = td.toasts
                     /\ shown' = shown
                     /\ gens' = Append(td.gens, "inflight")
                ELSE /\ inner' = NoInner
                     /\ toasts' = Reported(st, td.toasts)
                     /\ shown' = Emitted(g, st)
                     /\ gens' = Append(td.gens, "settled")
             /\ UNCHANGED <<impl, now, ticks, peakCache, used, keyVars, srvVars, form, sortState,
                            currentPage>>

\* the debounce timer fires
Dispatch ==
  /\ now = due
  /\ Flush
  /\ UNCHANGED viewVars

\* the template's subscriptions to items$ and total$ end (the async pipes of
\* a view that is destroyed, itemsSub.unsubscribe() in the tests): shareReplay
\* with refCount: true unsubscribes from its source, which clears the debounce
\* timer and unsubscribes the inner subscription, running its finalize
unsubscribeResults ==
  LET td == Teardown(inner, obs, searchCache, toasts, gens)
  IN /\ subscribed \/ inner # NoInner
     /\ subscribed' = FALSE
     /\ due' = -1
     /\ trigger' = (IF trigger = Untracked THEN Untracked ELSE NoTrigger)
     /\ obs' = td.obs
     /\ toasts' = td.toasts
     /\ gens' = td.gens
     /\ inner' = NoInner
     /\ loading' = FALSE
     /\ ret' = NoRet
     /\ UNCHANGED <<impl, now, ticks, searchCache, peakCache, httpCalls, used, keyVars,
                    srvVars, form, sortState, currentPage, shown, resultsTable, appComponent,
                    timeouts>>

\* ngOnDestroy: destroy$.next() completes takeUntil; debounceTime emits the
\* trigger it holds, if any, and completes; an inner subscription stays until
\* its response arrives
ngOnDestroy ==
  /\ subscribed
  /\ subscribed' = FALSE
  /\ IF due >= 0 THEN Flush
     ELSE /\ ret' = NoRet
          /\ UNCHANGED <<impl, now, ticks, searchCache, peakCache, obs, httpCalls, used,
                         keyVars, srvVars, pageVars>>
  /\ UNCHANGED <<resultsTable, appComponent, timeouts>>

PageInit ==
  /\ Constructed
  /\ PageConstructed
  /\ ServerIdle
  /\ ViewConstructed
  /\ trigger = Untracked
  /\ q1 = SvcQuery(1, 1)
  /\ q2 = q1

PageNext ==
  \/ \E i \in 1..NumQueries : SetCriteria(Criteria(i, 1))
  \/ \E b \in {S_PartNumber, <<>>} : SetBy(b)
  \/ onSearch
  \/ \E p \in 0..MaxPage : onPageChange(p)
  \/ Await
  \/ Dispatch
  \/ \E h \in Handles, outcome \in {"ok", "failEnv", "error"} : Respond(h, outcome)
  \/ \E d \in Deltas : Tick(d, MaxTicks)

\* the page and the service it calls
SpecPage == PageInit /\ [][PageNext]_vars

\* the page with its three triggers, the criteria left as they are
SortNext ==
  \/ \E b \in {S_PartNumber, <<>>} : SetBy(b)
  \/ Len(gens) < SortGens /\ onSearch
  \/ \E p \in 0..MaxPage : Len(gens) < SortGens /\ onPageChange(p)
  \/ \E field \in SortableFields : Len(gens) < SortGens /\ onSort(field)
  \/ Await
  \/ Dispatch
  \/ \E h \in Handles, outcome \in {"ok", "failEnv", "error"} : Respond(h, outcome)
  \/ Tick(1, MaxTicks)

\* the page, with the history of its triggers kept
TrackedInit ==
  /\ Constructed
  /\ PageConstructed
  /\ ServerIdle
  /\ ViewConstructed
  /\ trigger = NoTrigger
  /\ q1 = SvcQuery(1, 1)
  /\ q2 = q1

SpecSort == TrackedInit /\ [][SortNext]_vars

\* the page between a trigger and the firing of the timer it started, the
\* requests it makes being answered with data
ElapseNext ==
  \/ \E i \in 1..NumQueries : SetCriteria(Criteria(i, 1))
  \/ \E b \in {S_PartNumber, <<>>} : SetBy(b)
  \/ onSearch
  \/ \E p \in 0..MaxPage : onPageChange(p)
  \/ Await
  \/ Dispatch
  \/ \E h \in Handles : Respond(h, "ok")

SpecElapse == TrackedInit /\ [][ElapseNext]_vars

\* the page until it is destroyed: its triggers reach it while search$ is
\* subscribed to searchTrigger$
DestroyNext ==
  \/ subscribed /\ onSearch
  \/ \E p \in 0..MaxPage : subscribed /\ onPageChange(p)
  \/ Await
  \/ Dispatch
  \/ \E h \in Handles, outcome \in {"ok", "failEnv", "error"} : Respond(h, outcome)
  \/ Tick(1, MaxTicks)
  \/ ngOnDestroy
  \/ unsubscribeResults

SpecDestroy == PageInit /\ [][DestroyNext]_vars

(***************************************************************************)
(* cacheKey on its own: q1 is a query, q2 the same query with its branches *)
(* reordered, its criteria written in another letter case or padded with   *)
(* white space, or its missing sort given as undefined or null             *)
(***************************************************************************)
KeyBranches == {S_SEA, S_DEN, S_CLT}

RECURSIVE SeqsUpTo(_, _)
SeqsUpTo(S, n) ==
  IF n = 0 THEN {<<>>}
  ELSE LET shorter == SeqsUpTo(S, n - 1)
       IN shorter \cup {Append(t, x) : t \in shorter, x \in S}

\* "", "aB" and "q 1"
KeyCriteria == {<<>>, <<97, 66>>, <<113, 32, 49>>}

KeyQueries ==
  {Query(c, S_PartNumber, br, oa, 0, pageSize, so) :
     c \in KeyCriteria, br \in SeqsUpTo(KeyBranches, MaxBranches),
     oa \in BOOLEAN, so \in {NoSort, SortOf(S_branch, S_desc)}}

IsLetter(ch) == (ch >= 65 /\ ch <= 90) \/ (ch >= 97 /\ ch <= 122)

\* the letter in the other case
OtherCase(ch) == IF ch <= 90 THEN ch + 32 ELSE ch - 32

KeyInit ==
  /\ Constructed
  /\ PageConstructed
  /\ ServerIdle
  /\ ViewConstructed
  /\ trigger = Untracked
  /\ q1 \in KeyQueries
  /\ q2 = q1

ReorderBranches(i, j) ==
  /\ i < j
  /\ j <= Len(q2.branches)
  /\ q2.branches[i] # q2.branches[j]
  /\ q2' = [q2 EXCEPT !.branches =
              [k \in 1..Len(q2.branches) |->
                 IF k = i THEN q2.branches[j]
                 ELSE IF k = j THEN q2.branches[i] ELSE q2.branches[k]]]
  /\ UNCHANGED <<svcVars, q1, pageVars, srvVars, viewVars>>

RecaseCriteria(i) ==
  /\ i <= Len(q2.criteria)
  /\ IsLetter(q2.criteria[i])
  /\ q2' = [q2 EXCEPT !.criteria[i] = OtherCase(q2.criteria[i])]
  /\ UNCHANGED <<svcVars, q1, pageVars, srvVars, viewVars>>

PadCriteria(ch, front) ==
  /\ Len(q2.criteria) - Len(Trim(q2.criteria)) < MaxPad
  /\ q2' = [q2 EXCEPT !.criteria =
              IF front THEN <<ch>> \o q2.criteria ELSE Append(q2.criteria, ch)]
  /\ UNCHANGED <<svcVars, q1, pageVars, srvVars, viewVars>>

EmptySort(so) ==
  /\ q2.sort.kind # "value"
  /\ q2.sort # so
  /\ q2' = [q2 EXCEPT !.sort = so]
  /\ UNCHANGED <<svcVars, q1, pageVars, srvVars, viewVars>>

KeyNext ==
  \/ \E i, j \in 1..Len(q2.branches) : ReorderBranches(i, j)
  \/ \E i \in 1..Len(q2.criteria) : RecaseCriteria(i)
  \/ \E ch \in {32, 9}, front \in BOOLEAN : PadCriteria(ch, front)
  \/ \E so \in {NoSort, UndefinedSort, NullSort} : EmptySort(so)

SpecKey == KeyInit /\ [][KeyNext]_vars

(***************************************************************************)
(* The server answering requests, one at a time, over a repository that    *)
(* holds any of the lists of Repositories                                  *)
(***************************************************************************)
\* the lowest page index whose product with MaxPageSize exceeds int.MaxValue
FarPage == 10737419

clientVars == <<svcVars, keyVars, pageVars, viewVars>>

\* GET api/inventory/search
Search(p) ==
  /\ response = NoResponse
  /\ response' = SearchAnswer(p, _items)
  /\ _items' = StoredAfter(_items, response'.result.sorted)
  /\ UNCHANGED clientVars

\* GET api/inventory/availability/peak
GetPeakAvailability(partNumber) ==
  /\ response = NoResponse
  /\ response' = PeakAnswer(partNumber, _items)
  /\ _items' = StoredAfter(_items, _items)
  /\ UNCHANGED clientVars

\* the answer is sent
Reply ==
  /\ response # NoResponse
  /\ response' = NoResponse
  /\ UNCHANGED <<_items, clientVars>>

\* requests that differ in what they filter on
FilterQueries ==
  {SearchParams(c, by, b, a, 0, size, sort, FALSE) :
     c \in {<<>>, S_space, S_b2},
     by \in {S_PartNumber, S_Description, S_SupplierSku, S_description},
     b \in {<<>>, S_den_SEA, S_comma},
     a \in BOOLEAN,
     size \in {2, MaxPageSize},
     sort \in {<<>>, S_uom \o S_colon \o S_DESC}}

\* requests that differ in the order and in the page they ask for
PageQueries ==
  {SearchParams(c, S_PartNumber, <<>>, a, page, size, sort, FALSE) :
     c \in {<<>>, S_b2},
     a \in BOOLEAN,
     page \in {0, 1, FarPage},
     size \in {2, MaxPageSize},
     sort \in {<<>>, S_partNumber \o S_colon \o S_desc, S_uom \o S_colon \o S_DESC,
               S_leadTimeDays, S_leadTimeDays \o S_colon \o S_desc,
               S_lastPurchaseDate \o S_colon \o S_desc}}

\* requests around the limits the controller checks
LimitQueries ==
  {SearchParams(<<>>, by, <<>>, FALSE, page, size, sort, fail) :
     by \in {S_PartNumber, S_description, S_branch, <<>>},
     page \in {-1, 0},
     size \in {0, 1, MaxPageSize, MaxPageSize + 1},
     sort \in {<<>>, S_uom \o S_colon \o S_DESC, S_supplierSku,
               S_LOTS \o S_colon \o S_asc, S_price, S_uom \o S_colon \o S_up,
               S_space \o S_colon \o S_desc},
     fail \in BOOLEAN}

PartNumbers == {<<>>, S_space, S_a1, S_B2, S_K1}

ServerInit ==
  /\ Constructed
  /\ impl = "map"
  /\ PageConstructed
  /\ ViewConstructed
  /\ trigger = Untracked
  /\ q1 = SvcQuery(1, 1)
  /\ q2 = q1
  /\ _items \in Repositories
  /\ response = NoResponse

ServerNext ==
  \/ \E p \in FilterQueries : Search(p)
  \/ \E p \in PageQueries : Search(p)
  \/ \E p \in LimitQueries : Search(p)
  \/ \E partNumber \in PartNumbers : GetPeakAvailability(partNumber)
  \/ Reply

SpecServer == ServerInit /\ [][ServerNext]_vars

(***************************************************************************)
(* The request the service sends for a query, answered by the server: q1   *)
(* is a query and q2 a query with the same cache key, which the service    *)
(* would answer from the entry of q1                                       *)
(***************************************************************************)
\* search(query): the HttpParams it sets, as the controller binds them;
\* branches, onlyAvailable and sort are set only when they are truthy
ParamsOf(q) ==
  SearchParams(q.criteria, q.by,
               IF Len(q.branches) > 0 THEN Join(q.branches, S_comma) ELSE <<>>,
               q.onlyAvailable, q.page, q.size, SortText(q.sort), FALSE)

\* queries for "b2" by part number or by description, in every branch or in
\* two of them
SoundQueries ==
  {Query(S_b2, by, br, FALSE, 0, 2, NoSort) :
     by \in {S_PartNumber, S_Description}, br \in {<<>>, <<S_SEA, S_DEN>>}}

SoundInit ==
  /\ Constructed
  /\ impl = "map"
  /\ PageConstructed
  /\ ViewConstructed
  /\ trigger = Untracked
  /\ q1 \in SoundQueries
  /\ q2 = q1
  /\ _items \in {r \in Repositories : Len(r) = MaxItems}
  /\ response = NoResponse

\* the next query is written while no request is being answered
SoundNext ==
  \/ \E i, j \in 1..Len(q2.branches) : response = NoResponse /\ ReorderBranches(i, j)
  \/ \E i \in 1..Len(q2.criteria) : response = NoResponse /\ RecaseCriteria(i)
  \/ \E ch \in {32, 9}, front \in BOOLEAN : response = NoResponse /\ PadCriteria(ch, front)
  \/ \E so \in {NoSort, UndefinedSort, NullSort} : response = NoResponse /\ EmptySort(so)
  \/ Search(ParamsOf(q2))
  \/ Reply

SpecSound == SoundInit /\ [][SoundNext]_vars

(***************************************************************************)
(* Actions of ResultsTableComponent: its paging                            *)
(***************************************************************************)
\* pages asked for: -1 .. MaxGoTo
MaxGoTo == 5
\* page changes emitted in one behaviour
MaxEmits == 2

\* the totals the parent binds: -1 after a failed search, none, one, a full
\* page, one more, two pages and one more
Totals == {-1, 0, 1, 20, 21, 41}

\* the template calls goTo with the page of the button that was clicked
goTo(page) ==
  /\ Len(resultsTable.pageChange) < MaxEmits
  /\ resultsTable' = goneTo(resultsTable, page)
  /\ UNCHANGED <<svcVars, keyVars, pageVars, srvVars, subscribed, appComponent, timeouts>>

\* the parent binds the total of another result
SetTotal(total) ==
  /\ resultsTable.total # total
  /\ resultsTable' = [resultsTable EXCEPT !.total = total]
  /\ UNCHANGED <<svcVars, keyVars, pageVars, srvVars, subscribed, appComponent, timeouts>>

\* the table with the inputs its parent bound
TableInit ==
  /\ Constructed
  /\ impl = "map"
  /\ PageConstructed
  /\ ServerIdle
  /\ trigger = Untracked
  /\ q1 = SvcQuery(1, 1)
  /\ q2 = q1
  /\ subscribed = TRUE
  /\ appComponent = AppConstructed
  /\ timeouts = NoTimeouts
  /\ \E total \in Totals, size \in {10, 20}, index \in 0..2 :
       resultsTable = [TableConstructed EXCEPT !.total = total, !.pageSize = size,
                                               !.pageIndex = index]

TableNext ==
  \/ \E page \in -1..MaxGoTo : goTo(page)
  \/ \E total \in Totals : SetTotal(total)

SpecTable == TableInit /\ [][TableNext]_vars

(***************************************************************************)
(* Actions of ResultsTableComponent: its peak-availability lookups         *)
(***************************************************************************)
\* lookups started in one behaviour
MaxFetches == 3

\* two rows of one part number in two branches
TableItems ==
  {[partNumber |-> PartNo(1), branch |-> S_SEA],
   [partNumber |-> PartNo(1), branch |-> S_DEN]}

\* object[key] is truthy
Truthy(object, key) == key \in DOMAIN object /\ object[key] = TRUE

\* fetchPeakAvailability(item): api.getPeakAvailability(item.partNumber)
\* .pipe(finalize(..)).subscribe({next, error})
fetchPeakAvailability(item) ==
  LET f == Fetch(obs, "peak", item.partNumber, peakKey(item.partNumber), MaxCalls)
  IN /\ resultsTable.fetches < MaxFetches
     /\ f.ok
     /\ peakCache' = f.cache
     /\ obs' = f.obs
     /\ ret' = f.ret
     /\ httpCalls' = httpCalls + (IF f.ret.issued THEN 1 ELSE 0)
     /\ resultsTable' = lookedUp(resultsTable, item, f.ret.obs, f.obs[f.ret.obs].st)
     /\ UNCHANGED <<impl, now, ticks, searchCache, used, keyVars, pageVars, srvVars,
                    subscribed, appComponent, timeouts>>

\* onPeakButton(item): returns while the row is loading or has its data,
\* else expands the row and fetches
onPeakButton(item) ==
  LET key == itemKey(item)
      f == Fetch(obs, "peak", item.partNumber, peakKey(item.partNumber), MaxCalls)
      open == [resultsTable EXCEPT !.expanded = Assign(@, key, TRUE)]
  IN /\ ~Truthy(resultsTable.peakLoading, key)
     /\ ~(key \in DOMAIN resultsTable.peakByPart /\ resultsTable.peakByPart[key].has)
     /\ resultsTable.fetches < MaxFetches
     /\ f.ok
     /\ peakCache' = f.cache
     /\ obs' = f.obs
     /\ ret' = f.ret
     /\ httpCalls' = httpCalls + (IF f.ret.issued THEN 1 ELSE 0)
     /\ resultsTable' = lookedUp(open, item, f.ret.obs, f.obs[f.ret.obs].st)
     /\ UNCHANGED <<impl, now, ticks, searchCache, used, keyVars, pageVars, srvVars,
                    subscribed, appComponent, timeouts>>

PeakInit ==
  /\ Constructed
  /\ PageConstructed
  /\ ServerIdle
  /\ ViewConstructed
  /\ trigger = Untracked
  /\ q1 = SvcQuery(1, 1)
  /\ q2 = q1

PeakNext ==
  \/ \E item \in TableItems : onPeakButton(item)
  \/ \E item \in TableItems : fetchPeakAvailability(item)
  \/ \E h \in Handles, outcome \in {"ok", "failEnv", "error"} : Respond(h, outcome)
  \/ \E d \in Deltas : Tick(d, MaxTicks)

\* the table and the service it calls
SpecPeak == PeakInit /\ [][PeakNext]_vars

(***************************************************************************)
(* Actions of AppComponent: toasts arrive from the ToastService, the user  *)
(* dismisses them, their timers fire                                       *)
(***************************************************************************)
ToastMessages == {InfoCancelled, ErrorToast("error")}

\* toast$ emits: enqueueToast(message)
enqueueToast(message, r) ==
  LET e == enqueued(appComponent, timeouts, message, now, r)
  IN /\ timeouts.next <= MaxArrivals
     /\ appComponent' = e.app
     /\ timeouts' = e.tmo
     /\ UNCHANGED <<svcVars, keyVars, pageVars, srvVars, subscribed, resultsTable>>

\* the close button of a displayed toast: dismiss(id)
dismiss(id) ==
  LET e == dismissed(appComponent, timeouts, id)
  IN /\ id \in ToastIds(appComponent.toasts)
     /\ appComponent' = e.app
     /\ timeouts' = e.tmo
     /\ UNCHANGED <<svcVars, keyVars, pageVars, srvVars, subscribed, resultsTable>>

\* a timer that is due fires: () => this.dismiss(toast.id)
Timeout(t) ==
  LET e == dismissed(appComponent, [timeouts EXCEPT !.live = @ \ {t}], t.id)
  IN /\ t \in timeouts.live
     /\ t.due <= now
     /\ appComponent' = e.app
     /\ timeouts' = e.tmo
     /\ UNCHANGED <<svcVars, keyVars, pageVars, srvVars, subscribed, resultsTable>>

\* the clock advances; a timer that is due fires before it is passed
Elapse(d) ==
  /\ ticks < MaxAppTicks
  /\ \A t \in timeouts.live : now + d <= t.due
  /\ now' = now + d
  /\ ticks' = ticks + 1
  /\ UNCHANGED <<impl, searchCache, peakCache, obs, ret, httpCalls, used, keyVars, pageVars,
                 srvVars, viewVars>>

AppInit ==
  /\ Constructed
  /\ impl = "map"
  /\ PageConstructed
  /\ ServerIdle
  /\ ViewConstructed
  /\ trigger = Untracked
  /\ q1 = SvcQuery(1, 1)
  /\ q2 = q1

AppNext ==
  \/ \E message \in ToastMessages, r \in 0..(RandomSteps - 1) : enqueueToast(message, r)
  \/ \E id \in ToastIds(appComponent.toasts) : dismiss(id)
  \/ \E t \in timeouts.live : Timeout(t)
  \/ \E d \in {1, autoClearMs - 1} : Elapse(d)

SpecToast == AppInit /\ [][AppNext]_vars

(***************************************************************************)
(* Properties of the caches                                                *)
(***************************************************************************)
CacheNames == {"search", "peak"}

CacheOf(c) == IF c = "search" THEN searchCache ELSE peakCache

\* the cache the call that has just returned worked on
Called == CacheOf(ret.op)

\* the ways the i-th criteria / part number is written
ArgsOf(c, i) ==
  IF c = "search" THEN {Criteria(i, v) : v \in 1..2} ELSE {PartNo(i)}

NoDuplicateKey(cache) ==
  \A i, j \in 1..Len(cache) : cache[i].key = cache[j].key => i = j

\* C4: after any sequence of calls, responses, failures and clock advances
\* each of the two caches holds at most CACHE_MAX_ENTRIES entries
C4_SizeBounded ==
  /\ Len(searchCache) <= CACHE_MAX_ENTRIES
  /\ Len(peakCache) <= CACHE_MAX_ENTRIES

\* a key was stored in a full cache, and the cache is full again
C4_Witness ==
  /\ ret.op \in CacheNames
  /\ ~ret.hit
  /\ ret.evicted # <<>>
  /\ Len(Called) = CACHE_MAX_ENTRIES

\* C3: a call for a sixth distinct key, made while five distinct live keys
\* k1..k5 are cached, removes exactly k1: the cache then holds k2..k5 unchanged
\* followed by the new key, k2..k6 are hits and k1 is a miss, and a call that
\* misses issues a request
C3_SixthEvictsFirst ==
  [][\A c \in CacheNames :
       LET before == CacheOf(c)
           after == CacheOf(c)'
       IN (/\ ret'.op = c
           /\ Len(before) = CACHE_MAX_ENTRIES
           /\ NoDuplicateKey(before)
           /\ \A i \in 1..Len(before) : before[i].expiry > now
           /\ ~MapHas(before, ret'.key))
          => /\ Len(after) = CACHE_MAX_ENTRIES
             /\ \A i \in 1..(CACHE_MAX_ENTRIES - 1) : after[i] = before[i + 1]
             /\ after[CACHE_MAX_ENTRIES].key = ret'.key
             /\ ret'.evicted = <<before[1].key>>
             /\ \A i \in 1..CACHE_MAX_ENTRIES : Lookup(after, after[i].key).hit
             /\ ~Lookup(after, before[1].key).hit
             /\ ~ret'.hit
             /\ ret'.issued]_vars

\* the sixth key has just been stored: the first one is gone, the other four
\* are still there
C3_Witness ==
  /\ ret.op = "search"
  /\ ret.evicted = <<FilledKey("search", 1)>>
  /\ Keys(searchCache) =
       [i \in 1..CACHE_MAX_ENTRIES |->
          IF i < CACHE_MAX_ENTRIES THEN FilledKey("search", i + 1) ELSE ret.key]
  /\ ret.issued

\* C8: a hit leaves the entries and their order as they are, and the entry
\* removed on overflow is the one inserted earliest among those present, also
\* when it was the entry read last
C8_ReadsDoNotPromote ==
  [][\A c \in CacheNames :
       LET before == CacheOf(c)
           after == CacheOf(c)'
       IN ret'.op = c =>
            /\ ret'.hit =>
                 after = SelectSeq(before, LAMBDA e : MapHas(after, e.key))
            /\ ret'.evicted # <<>> =>
                 /\ ret'.evicted = <<ret'.oldest>>
                 /\ \A i \in 1..Len(after) : after[i].born > before[1].born]_vars

\* a key is evicted by the call that follows a hit on that very key
C8_Witness ==
  /\ ret.op \in CacheNames
  /\ ret.evicted # <<>>
  /\ ret.readBefore

\* C9: each cache holds at most one entry per key
C9_OneEntryPerKey ==
  /\ NoDuplicateKey(searchCache)
  /\ NoDuplicateKey(peakCache)

\* a key whose entry had expired has just been stored again
C9_Witness ==
  /\ ret.op \in CacheNames
  /\ ~ret.hit
  /\ ret.found >= 0
  /\ ret.found <= ret.at
  /\ Cardinality({i \in 1..Len(Called) : Called[i].key = ret.key}) = 1

\* C2 (as stated): a call for a query that was called before, made less than
\* CACHE_TTL_MS after the service was built and so less than CACHE_TTL_MS
\* after that earlier call, issues no request; a call made after the TTL of
\* the key's entry has run out issues one
C2_OneCallWithinTTL ==
  [][\A c \in CacheNames, i \in 1..CapQueries :
       (/\ ret'.op = c
        /\ ret'.arg \in ArgsOf(c, i)
        /\ used[c] >= i)
       => /\ now < CACHE_TTL_MS => ~ret'.issued
          /\ (ret'.found >= 0 /\ now > ret'.found) => ret'.issued]_vars

\* C2 (amended): a call made less than CACHE_TTL_MS after the call that stored
\* the key's entry is served that entry and issues no request, unless the
\* entry's request has failed in the meantime; a call that finds no entry for
\* the key (none stored yet, removed after a failure, evicted) or finds it
\* past its TTL stores a new entry and issues a request
C2_OneCallWhileLive ==
  ret.op \in CacheNames =>
     /\ (ret.found >= 0 /\ ret.at < ret.found /\ ret.foundSt # "cold")
          => (ret.hit /\ ret.obs = ret.foundObs /\ ~ret.issued)
     /\ (ret.found = -1 \/ ret.at > ret.found)
          => (~ret.hit /\ ret.issued /\ MapHas(Called, ret.key)
              /\ MapGet(Called, ret.key).expiry = ret.at + CACHE_TTL_MS)

\* a second call, later but within the TTL, is served the request still in
\* flight
C2_Witness ==
  /\ ret.op = "search"
  /\ ret.hit
  /\ ~ret.issued
  /\ ret.at > ret.found - CACHE_TTL_MS
  /\ ret.at < ret.found
  /\ ret.foundSt = "inflight"
  /\ httpCalls = 1

\* C5 (as stated): a look-up finding an entry is a hit exactly if now is
\* before the entry's expiry; at or after the expiry it is a miss, the entry
\* is replaced and a request is issued
C5_HitIffBeforeExpiry ==
  (ret.op \in CacheNames /\ ret.found >= 0) =>
     /\ ret.hit <=> ret.at < ret.found
     /\ ret.at >= ret.found =>
          /\ ret.issued
          /\ MapGet(Called, ret.key).expiry = ret.at + CACHE_TTL_MS

\* C6 (as stated): a call for a key made while a request for the key is in
\* flight returns the handle of that request and issues no request
C6_SharedWhileInFlight ==
  (ret.op \in CacheNames /\ ret.pending # {}) =>
     (ret.obs \in ret.pending /\ ~ret.issued)

\* C6 (amended): a call for a key made while the request of the key's entry is
\* in flight and the entry's TTL has not run out returns the handle of that
\* request and issues no request
C6_SharedWhileLive ==
  (/\ ret.op \in CacheNames
   /\ ret.found >= 0
   /\ ret.at < ret.found
   /\ ret.foundObs \in ret.pending)
  => (ret.hit /\ ret.obs = ret.foundObs /\ ~ret.issued)

\* the criteria written differently join the request in flight: it has two
\* subscribers and was issued once
C6_Witness ==
  /\ ret.op = "search"
  /\ ret.arg = Criteria(1, 2)
  /\ ret.hit
  /\ ret.obs \in ret.pending
  /\ obs[ret.obs].subs = 2
  /\ httpCalls = 1

\* C7 (as stated): no cache holds an entry whose request has failed, be it
\* with a failure envelope or with an error nobody was subscribed to, and a
\* call finding the key's request failed issues a new one
C7_FailureRemovesEntry ==
  /\ \A c \in CacheNames : \A i \in 1..Len(CacheOf(c)) :
       obs[CacheOf(c)[i].obs].st \notin {"failEnv", "cold"}
  /\ (ret.op \in CacheNames /\ ret.foundSt \in {"failEnv", "cold"}) => ret.issued

\* C10: two queries that differ only in the order of their branches, in the
\* letter case or the white space around their criteria, or in how a missing
\* sort is given have the same cache key
C10_KeyInsensitive == cacheKey(q1) = cacheKey(q2)

\* q2 differs from q1 in all four ways at once
C10_Witness ==
  /\ q2.branches # q1.branches
  /\ Trim(q2.criteria) # Trim(q1.criteria)
  /\ Len(q2.criteria) > Len(Trim(q2.criteria))
  /\ q2.sort # q1.sort

InfoCount(ts) == Len(SelectSeq(ts, LAMBDA t : t = InfoCancelled))

Cancelled == {g \in 1..Len(gens) : gens[g] = "cancelled"}

\* C1: a query dispatched while the previous one has not settled cancels it
\* and sends exactly one 'Previous search cancelled.' notice; what items and
\* total expose never is the result of a cancelled query, whatever the order
\* the responses arrive in, and once the later query has settled it is its
\* result
C1_OnlyLatestSurfaced ==
  [][/\ (Len(gens') = Len(gens) + 1 /\ inner # NoInner)
          => /\ gens'[inner.gen] = "cancelled"
             /\ InfoCount(toasts') = InfoCount(toasts) + 1
             /\ shown'.gen # inner.gen
     /\ Len(gens') = Len(gens) => InfoCount(toasts') = InfoCount(toasts)
     /\ \A g \in Cancelled : gens'[g] = "cancelled" /\ shown'.gen # g
     /\ (gens' # <<>> /\ gens'[Len(gens')] = "settled") => shown'.gen = Len(gens')
     /\ shown'.gen >= shown.gen]_vars

\* the first query was superseded by the second, both requests were answered
\* and the second one's result is exposed
C1_Witness ==
  /\ gens = <<"cancelled", "settled">>
  /\ shown.gen = 2
  /\ InfoCount(toasts) = 1
  /\ httpCalls = 2
  /\ \A h \in Handles : obs[h].st # "inflight"

(***************************************************************************)
(* The debounce of IndexPageComponent                                      *)
(***************************************************************************)
\* a step in which searchTrigger$ emits
IsTrigger == trigger'.at >= 0 /\ trigger' # trigger

\* a step in which the debounce timer fires
TimerFires == trigger.at >= 0 /\ trigger'.at < 0

\* a step in which a query is handed to switchMap
Dispatches == Len(gens') # Len(gens)

\* a trigger starts nothing by itself
StartsNothing ==
  /\ httpCalls' = httpCalls
  /\ gens' = gens
  /\ inner' = inner
  /\ obs' = obs
  /\ searchCache' = searchCache

\* C11 as stated: a burst of triggers, each less than debounceMs after the
\* one before, makes the timer fire once, debounceMs after the last of them,
\* and exactly one query is dispatched then; the triggers start no call
C11_BurstDispatchesOne ==
  [][/\ IsTrigger => StartsNothing
     /\ TimerFires => /\ now = trigger.at + debounceMs
                      /\ Len(gens') = Len(gens) + 1]_vars

\* C11: a burst of triggers, each less than debounceMs after the one before,
\* makes the timer fire once, debounceMs after the last of them; exactly one
\* query is dispatched then if the form is valid at that moment and none if
\* it is not; queries are dispatched at no other moment and the triggers
\* start no call
C11_BurstDispatchesOneIfValid ==
  [][/\ IsTrigger => StartsNothing
     /\ TimerFires => /\ now = trigger.at + debounceMs
                      /\ trigger' = NoTrigger
                      /\ IF formValid
                         THEN /\ Len(gens') = Len(gens) + 1
                              /\ httpCalls' <= httpCalls + 1
                         ELSE StartsNothing
     /\ Dispatches => TimerFires
     /\ (trigger.at >= 0 /\ ~TimerFires) => now' <= trigger'.at + debounceMs]_vars

\* onSort('branch') twice and onPageChange(1), the last of them at time 1:
\* one query was dispatched, at time 1 + debounceMs, and one call made
C11_Witness ==
  /\ ret.op = "search"
  /\ ret.trigger.at = 1
  /\ ret.at = 1 + debounceMs
  /\ sortState = [field |-> S_branch, direction |-> S_desc]
  /\ currentPage = 1
  /\ Len(gens) = 1
  /\ httpCalls = 1

(***************************************************************************)
(* loading$                                                                *)
(***************************************************************************)
\* the generations whose request the page is waiting for
Current == {g \in 1..Len(gens) : gens[g] = "inflight"}

\* C12: loading is true exactly while the request of a dispatched generation
\* that was not superseded is in flight: false while only the debounce timer
\* runs, true from the dispatch on, false once the request has settled, and
\* true after a supersession for as long as the newer request is in flight
C12_LoadingWhileInFlight ==
  /\ loading <=> Current # {}
  /\ Current \subseteq {Len(gens)}
  /\ Current # {} <=> inner # NoInner
  /\ inner # NoInner => /\ inner.gen \in Current
                        /\ obs[inner.h].st = "inflight"
                        /\ obs[inner.h].subs > 0

\* a request was superseded and the newer one is in flight: loading is true
C12_Witness ==
  /\ gens = <<"cancelled", "inflight">>
  /\ loading
  /\ InfoCount(toasts) = 1
  /\ due = -1

(***************************************************************************)
(* The outcome of a generation                                             *)
(***************************************************************************)
ErrorCount(ts) == Len(SelectSeq(ts, LAMBDA t : t.level = "error"))

\* generation g ends in this step: its response arrives, or it is dispatched
\* and a cached response is replayed to it
Settles(g) ==
  /\ g \in 1..Len(gens')
  /\ gens'[g] = "settled"
  /\ g \in 1..Len(gens) => gens[g] = "inflight"

\* C13: a dispatched generation that is not superseded ends in one outcome,
\* once: a failure (failure envelope or transport error) emits exactly one
\* error notice, carrying the message of that failure, and the failure value,
\* and leaves loading false; a success emits the data and no error notice;
\* error notices and values are emitted at no other moment
C13_OneOutcome ==
  [][/\ \A g \in 1..Len(gens') :
          Settles(g) =>
            /\ ret'.received \in {"ok", "failEnv", "error"}
            /\ shown'.gen = g
            /\ loading' = FALSE
            /\ IF ret'.received = "ok"
               THEN /\ shown'.value = "resp.data"
                    /\ ErrorCount(toasts') = ErrorCount(toasts)
               ELSE /\ shown'.value = "{total: -1, items: []}"
                    /\ ErrorCount(toasts') = ErrorCount(toasts) + 1
                    /\ toasts'[Len(toasts')] = ErrorToast(ret'.received)
     /\ \A g \in 1..Len(gens) : gens[g] = "settled" => gens'[g] = "settled"
     /\ (ErrorCount(toasts') # ErrorCount(toasts) \/ shown' # shown)
           => \E g \in 1..Len(gens') : Settles(g)]_vars

\* the request of the first generation failed with a transport error while
\* the page was waiting for it: one error notice, loading false
C13_Witness ==
  /\ gens = <<"settled">>
  /\ ret.received = "error"
  /\ toasts = <<ErrorToast("error")>>
  /\ shown = [gen |-> 1, value |-> "{total: -1, items: []}"]
  /\ ~loading

(***************************************************************************)
(* Cancelled generations                                                   *)
(***************************************************************************)
\* the request behind handle h is answered in this step and the page is not
\* subscribed to it
LateResponse(h) ==
  /\ obs[h].st = "inflight"
  /\ obs'[h].st # "inflight"
  /\ inner = NoInner \/ inner.h # h

\* generation g is superseded in this step
Supersedes(g) ==
  /\ g \in 1..Len(gens)
  /\ gens[g] = "inflight"
  /\ gens'[g] = "cancelled"

\* C14: a cancelled generation delivers neither success nor failure: the
\* response or error of a request the page has unsubscribed from changes
\* neither the emitted items / total nor loading and emits no notice; the
\* cancellation itself emits the one info notice, and the generation stays
\* cancelled and is never the one shown
C14_CancelledIsSilent ==
  [][/\ \A h \in Handles : LateResponse(h) => UNCHANGED pageVars
     /\ \A g \in 1..Len(gens) :
          /\ gens[g] = "cancelled" => gens'[g] = "cancelled" /\ shown'.gen # g
          /\ Supersedes(g) =>
               /\ InfoCount(toasts') = InfoCount(toasts) + 1
               /\ shown' # shown => shown'.gen = Len(gens')
               /\ ErrorCount(toasts') # ErrorCount(toasts) => Settles(Len(gens'))]_vars

\* the request of the cancelled first generation has been answered while the
\* second is in flight: nothing is shown, no error notice, loading is true
C14_Witness ==
  /\ gens = <<"cancelled", "inflight">>
  /\ httpCalls = 2
  /\ \A h \in Handles : obs[h].st = "inflight" => h = inner.h
  /\ shown = NoShown
  /\ toasts = <<InfoCancelled>>
  /\ loading

(***************************************************************************)
(* Triggers while a request is in flight                                   *)
(***************************************************************************)
\* C15: a trigger issued while loading is true is not dropped: the handlers
\* accept it whatever loading is, the timer it starts keeps running until it
\* fires, and when it fires with the form valid a new query is dispatched,
\* the request in flight is cancelled (one info notice) and the page waits
\* for the new one instead
C15_TriggerWhileLoading ==
  [][/\ (loading /\ Len(gens) < MaxGens)
          => /\ \A p \in 0..MaxPage : ENABLED onPageChange(p)
             /\ formValid => ENABLED onSearch
     /\ (loading /\ due >= 0 /\ due' < 0) => now = due
     /\ (loading /\ due >= 0 /\ due' < 0 /\ formValid)
          => /\ Len(gens') = Len(gens) + 1
             /\ Supersedes(inner.gen)
             /\ InfoCount(toasts') = InfoCount(toasts) + 1
             /\ inner' # NoInner => inner'.gen = Len(gens')
             /\ inner' = NoInner => Settles(Len(gens'))
             /\ ret'.op = "search"
             /\ ret'.key = cacheKey(buildQuery)]_vars

\* a trigger issued while the first request was in flight was dispatched: the
\* first generation is cancelled and a second call, for another key, is what
\* the page waits for
C15_Witness ==
  /\ gens = <<"cancelled", "inflight">>
  /\ ret.op = "search"
  /\ ret.issued
  /\ inner.gen = 2
  /\ obs[inner.h].key = ret.key
  /\ loading

(***************************************************************************)
(* The transport request of a superseded generation                        *)
(***************************************************************************)
\* the handles whose HTTP request has been sent and not answered
InFlight == {h \in Handles : obs[h].st = "inflight"}

\* C16: when a new generation is dispatched the transport request of the
\* previous one is aborted: the page, the only caller of the service here,
\* never has more than one remote request in flight
C16_AtMostOneInFlight == Cardinality(InFlight) <= 1

(***************************************************************************)
(* onSort and onPageChange                                                 *)
(***************************************************************************)
\* C17: onSort(field), field sortable, sets the sort to (field, desc) when it
\* was (field, asc) and to (field, asc) otherwise, sets the page to 0, leaves
\* the form alone and triggers; the query dispatched when the timer that the
\* last trigger started fires carries the page and the sort set then, page 0
\* and the new sort after onSort
C17_SortTogglesAndResetsPage ==
  [][/\ sortState' # sortState
          => /\ isSortable(sortState'.field)
             /\ sortState'.direction =
                  (IF sortState = [field |-> sortState'.field, direction |-> S_asc]
                   THEN S_desc ELSE S_asc)
             /\ currentPage' = 0
             /\ form' = form
             /\ trigger'.at = now
             /\ due' = now + debounceMs
             /\ trigger'.q.page = 0
             /\ trigger'.q.sort = SortOf(sortState'.field, sortState'.direction)
     /\ (TimerFires /\ formValid)
          => /\ ret'.op = "search"
             /\ ret'.key = cacheKey(buildQuery)
             /\ buildQuery.page = trigger.q.page
             /\ buildQuery.sort = trigger.q.sort]_vars

\* onSort('branch') twice from (partNumber, asc), then the timer fired: the
\* query dispatched is the one for page 0 sorted by (branch, desc)
C17_Witness ==
  /\ ret.op = "search"
  /\ sortState = [field |-> S_branch, direction |-> S_desc]
  /\ currentPage = 0
  /\ ret.key = cacheKey(QueryOf(form, [field |-> S_branch, direction |-> S_desc], 0))
  /\ ret.issued
  /\ Len(gens) = 1

\* C18: onPageChange(p) sets the current page to p and triggers (the timer
\* is started anew and nothing is called); the sort state and the form
\* values are as they were
C18_PageChangeFrame ==
  [][\A p \in 0..MaxPage :
       onPageChange(p) => /\ currentPage' = p
                          /\ trigger' = [at |-> now, q |-> QueryOf(form, sortState, p)]
                          /\ due' = now + debounceMs
                          /\ sortState' = sortState
                          /\ form' = form
                          /\ StartsNothing]_vars

\* onPageChange(1) was the last trigger, the table being sorted by branch:
\* the sort is still (branch, asc) and page 1 is what would be asked for
C18_Witness ==
  /\ trigger.at >= 0
  /\ due = trigger.at + debounceMs
  /\ currentPage = 1
  /\ sortState = [field |-> S_branch, direction |-> S_asc]
  /\ trigger.q = QueryOf(form, [field |-> S_branch, direction |-> S_asc], 1)

(***************************************************************************)
(* What is dispatched when the timer fires                                 *)
(***************************************************************************)
\* C19: when the timer fires a query is dispatched if and only if the form is
\* valid at that moment; the query is built from the form values, the sort
\* state and the page as they are at that moment, not as they were when the
\* trigger was issued; with the form invalid nothing is dispatched and a
\* request in flight is not cancelled
C19_BuiltWhenTimerFires ==
  [][/\ Dispatches => TimerFires
     /\ TimerFires =>
          /\ Dispatches <=> formValid
          /\ formValid => /\ ret'.op = "search"
                          /\ ret'.trigger = trigger
                          /\ ret'.arg = form.criteria
                          /\ ret'.key = cacheKey(QueryOf(form, sortState, currentPage))
          /\ ~formValid => /\ StartsNothing
                           /\ loading' = loading
                           /\ toasts' = toasts
                           /\ shown' = shown]_vars

\* the criteria were edited between the trigger and the firing of the timer:
\* the query dispatched is the one for the edited form
C19_Witness ==
  /\ ret.op = "search"
  /\ ret.trigger.at >= 0
  /\ ret.at = ret.trigger.at + debounceMs
  /\ ret.key = cacheKey(buildQuery)
  /\ ret.key # cacheKey(ret.trigger.q)
  /\ ret.trigger.q.criteria # form.criteria

(***************************************************************************)
(* The cache when a generation is cancelled                                *)
(***************************************************************************)
InSeq(x, seq) == \E i \in 1..Len(seq) : seq[i] = x

\* the entry of key k is in both caches a and b, the same, or in neither
SameEntry(a, b, k) ==
  /\ MapHas(a, k) <=> MapHas(b, k)
  /\ MapHas(a, k) => MapGet(a, k) = MapGet(b, k)

\* C20: cancelling a generation mutates the cache at most by removing the
\* pending entry of that generation: in the step that supersedes it, apart
\* from what the search of the new query does (its own entry, the expired
\* entries its look-up removes, the entry its insertion pushes out), the
\* entry of the cancelled request is unchanged or removed and every other
\* entry is unchanged, none added; the response or error of a request the
\* page has unsubscribed from changes no entry either
C20_CancelLeavesCache ==
  [][/\ \A g \in 1..Len(gens) :
          Supersedes(g) =>
            /\ peakCache' = peakCache
            /\ \A i \in 1..Len(searchCache) :
                 LET k == searchCache[i].key
                 IN (k # ret'.key /\ ~InSeq(k, ret'.swept) /\ ~InSeq(k, ret'.evicted))
                      => IF k = obs[inner.h].key
                         THEN MapHas(searchCache', k)
                                => MapGet(searchCache', k) = searchCache[i]
                         ELSE SameEntry(searchCache, searchCache', k)
            /\ \A i \in 1..Len(searchCache') :
                 searchCache'[i].key # ret'.key => MapHas(searchCache, searchCache'[i].key)
     /\ \A h \in Handles :
          LateResponse(h) => searchCache' = searchCache /\ peakCache' = peakCache]_vars

\* the first generation was cancelled by the dispatch of a query with another
\* key: its pending entry is still cached, with the expiry it was stored with
C20_Witness ==
  /\ gens = <<"cancelled", "inflight">>
  /\ ret.op = "search"
  /\ ~ret.hit
  /\ Len(searchCache) = 2
  /\ searchCache[1].key # ret.key
  /\ searchCache[1].expiry = debounceMs + CACHE_TTL_MS
  /\ obs[searchCache[1].obs].st = "inflight"

(***************************************************************************)
(* Properties of the server                                                *)
(***************************************************************************)
\* the controller is answering a search for which it called the engine
Searched == response.op = "search" /\ response.invoked

\* the elements of a sequence at the offsets page * size .. page * size +
\* size - 1, offsets counted from 0
Slice(seq, page, size) ==
  LET inPage == {j \in 1..Len(seq) : (j - 1) \div size = page}
  IN [k \in 1..Cardinality(inPage) |-> seq[page * size + k]]

\* C21: the engine's total is the number of items that passed the filters,
\* whatever the page and the size, and its items are the slice
\* [page * size, page * size + size) of the filtered, sorted sequence, so at
\* most size items, and none, with the same total, for a page beyond the range
C21_PageIsSlice ==
  Searched =>
    /\ response.result.Total = Len(response.result.byAvailable)
    /\ response.result.Items =
         Slice(response.result.sorted, response.request.Page, response.request.Size)
    /\ Len(response.result.Items) <= response.request.Size

\* the field the answered search sorts by, in lower case, and its direction
SortsBy == ToLowerInvariant(response.result.sortField)
Descending == EqualsIgnoreCase(response.result.sortDirection, S_desc)

\* the value of the nullable field the answered search sorts by
NullableKey(i) ==
  IF SortsBy = S_leadtimedays THEN i.LeadTimeDays ELSE i.LastPurchaseDate

\* C22: when the sort field is leadTimeDays or lastPurchaseDate, in ascending
\* and in descending order alike every item that has a value comes before
\* every item that has none; the direction orders the items that have a value
C22_PresentBeforeAbsent ==
  Searched /\ SortsBy \in {S_leadtimedays, S_lastpurchasedate} =>
    \A j, k \in 1..Len(response.result.sorted) :
      j < k =>
        LET x == NullableKey(response.result.sorted[j])
            y == NullableKey(response.result.sorted[k])
        IN /\ y.has => x.has
           /\ x.has /\ y.has => IF Descending THEN x.v >= y.v ELSE x.v <= y.v

\* a descending sort by a nullable field of items with and without a value,
\* the values differing
C22_Witness ==
  /\ Searched
  /\ SortsBy = S_leadtimedays
  /\ Descending
  /\ \E j, k, l \in 1..Len(response.result.sorted) :
       /\ j < k /\ k < l
       /\ NullableKey(response.result.sorted[j]).has
       /\ NullableKey(response.result.sorted[k]).has
       /\ NullableKey(response.result.sorted[j]).v >
            NullableKey(response.result.sorted[k]).v
       /\ ~NullableKey(response.result.sorted[l]).has
  /\ response.result.sorted # response.result.byAvailable

\* where an item of the sorted list stood in the list that was sorted
PlaceBefore(i) ==
  CHOOSE n \in 1..Len(response.result.byAvailable) : response.result.byAvailable[n] = i

\* the comparison of two items by the field the caller asked for, in the
\* direction asked for; by PartNumber ascending when the field is absent or
\* is none of the fields the engine sorts by
RequestedCompare(a, b) ==
  IF SortsBy \in {S_leadtimedays, S_lastpurchasedate}
  THEN CompareNullableKey(NullableKey(a), NullableKey(b), Descending,
                          int_MinValue, int_MaxValue)
  ELSE IF SortsBy \in {S_availableqty, S_description, S_branch, S_uom, S_partnumber}
  THEN (IF Descending THEN CompareBy(SortsBy, b, a) ELSE CompareBy(SortsBy, a, b))
  ELSE CompareStrings(a.PartNumber, b.PartNumber)

\* C23: the engine's sort is stable and by the requested field: the sorted
\* list holds the filtered items in the order of that field, items equal in
\* it in the order they had; with no sort field, or an unsupported one, the
\* list is in ascending order of PartNumber
C23_SortedByRequestedField ==
  Searched =>
    /\ Len(response.result.sorted) = Len(response.result.byAvailable)
    /\ \A n \in 1..Len(response.result.byAvailable) :
         \E j \in 1..Len(response.result.sorted) :
           response.result.sorted[j] = response.result.byAvailable[n]
    /\ \A j, k \in 1..Len(response.result.sorted) :
         j < k =>
           LET c == RequestedCompare(response.result.sorted[j], response.result.sorted[k])
           IN /\ c <= 0
              /\ c = 0 => PlaceBefore(response.result.sorted[j])
                            < PlaceBefore(response.result.sorted[k])

\* t occurs in s, letter case ignored
OccursIgnoringCase(s, t) ==
  \E at \in 0..(Len(s) - Len(t)) :
    \A k \in 1..Len(t) : ToLowerCase(<<s[at + k]>>) = ToLowerCase(<<t[k]>>)

\* the field of an item that `by` names; the controller lets the three names
\* through in any letter case
FieldNamed(by, i) ==
  IF EqualsIgnoreCase(by, S_Description) THEN i.Description
  ELSE IF EqualsIgnoreCase(by, S_SupplierSku) THEN i.SupplierSku
  ELSE i.PartNumber

\* C24: the criteria filter keeps exactly the items whose field named by
\* `by` (PartNumber, Description or SupplierSku) contains the criteria, letter
\* case ignored; with empty or white-space criteria it keeps every item
C24_CriteriaFilter ==
  Searched =>
    response.result.byCriteria =
      IF IsNullOrWhiteSpace(response.request.Criteria) THEN response.result.all
      ELSE SelectSeq(response.result.all,
                LAMBDA i : OccursIgnoringCase(FieldNamed(response.request.By, i),
                                              response.request.Criteria))

\* the branches of a request, as the set the controller's caller sent:
\* the parts between the commas, trimmed, the empty ones left out
RequestedBranches == BranchSet(response.request.Branches)

\* C25: with a non-empty branch set the branch filter keeps exactly the items
\* whose branch equals a member of the set, letter case ignored; with an empty
\* set it removes nothing
C25_BranchFilter ==
  Searched =>
    response.result.byBranches =
      IF RequestedBranches = {} THEN response.result.byCriteria
      ELSE SelectSeq(response.result.byCriteria,
                LAMBDA i : \E b \in RequestedBranches :
                             EqualsIgnoreCase(OrEmpty(i.Branch), b))

\* C26: with onlyAvailable set no item whose availableQty is zero or less is
\* in the result and the total counts the items with a positive availableQty
\* only; with onlyAvailable not set the filter removes nothing
C26_AvailabilityFilter ==
  Searched =>
    IF response.request.OnlyAvailable
    THEN /\ \A k \in 1..Len(response.result.Items) :
              response.result.Items[k].AvailableQty > 0
         /\ response.result.byAvailable =
              SelectSeq(response.result.byBranches, LAMBDA i : ~(i.AvailableQty <= 0))
         /\ response.result.Total =
              Cardinality({k \in 1..Len(response.result.byBranches) :
                             response.result.byBranches[k].AvailableQty > 0})
    ELSE response.result.byAvailable = response.result.byBranches

\* onlyAvailable removed an item that has nothing available and kept another
C26_Witness ==
  /\ Searched
  /\ response.request.OnlyAvailable
  /\ response.status = "Ok"
  /\ \E k \in 1..Len(response.result.byBranches) :
       response.result.byBranches[k].AvailableQty = 0
  /\ response.result.Total = Len(response.result.byBranches) - 1

\* the sort field and the sort direction of the search being answered, as the
\* controller reads them from the sort parameter
AskedSort == ParseSort(response.params.sort)

\* one of the conditions of the validation boundary holds of the request
Invalid ==
  \/ response.params.page < 0
  \/ response.params.size < 1
  \/ response.params.size > 200
  \/ \A f \in {S_PartNumber, S_Description, S_SupplierSku} :
       ~EqualsIgnoreCase(response.params.by, f)
  \/ \A f \in AllowedSortFields : ~EqualsIgnoreCase(AskedSort.sortField, f)
  \/ \A d \in {S_asc, S_desc} : ~EqualsIgnoreCase(AskedSort.sortDirection, d)
  \/ \E f \in {S_supplierSku, S_lots} : EqualsIgnoreCase(AskedSort.sortField, f)

\* C27: the controller answers with a failure, and does not call the engine,
\* whenever page < 0, size is outside [1, 200], `by` is none of PartNumber,
\* Description and SupplierSku, the sort field is not in the allowed set, the
\* sort direction is neither asc nor desc, or the sort field is supplierSku
\* or lots (names compared without regard to letter case, as the controller
\* compares them); it calls the engine only when none of these holds
C27_ValidationBeforeEngine ==
  response.op = "search" =>
    /\ Invalid => response.status = "BadRequest" /\ ~response.invoked
    /\ response.invoked => ~Invalid

\* a size above the limit, nothing else wrong, refused
C27_Witness ==
  /\ response.op = "search"
  /\ response.params.size = MaxPageSize + 1
  /\ response.params.page = 0
  /\ ~response.params.fail
  /\ response.params.sort = <<>>
  /\ response.params.by = S_PartNumber
  /\ response.status = "BadRequest"
  /\ response.message = "Size must be between 1 and 200."
  /\ ~response.invoked
  /\ Len(_items) > 0

\* the peak lookup being answered called the engine
PeakLookedUp == response.op = "peak" /\ response.invoked

\* the sum of the availableQty of the items of s that fall in the group key
QtyOf(s, key) ==
  Sum([k \in 1..Len(s) |->
         IF OrEmpty(s[k].Branch) = key THEN s[k].AvailableQty ELSE 0])

\* where a branch key is first met in s
FirstSeen(s, key) ==
  CHOOSE k \in 1..Len(s) :
    /\ OrEmpty(s[k].Branch) = key
    /\ \A j \in 1..(k - 1) : OrEmpty(s[j].Branch) # key

\* C28: the peak availability of a part number has one entry for each branch
\* of the items with that part number, an item without a branch counting
\* under the empty string; an entry's qty is the sum of the availableQty of
\* its items, totalAvailable is the sum of the entries, and the entries are in
\* the order their branches are first met
C28_PeakGroupsByBranch ==
  PeakLookedUp =>
    LET a == response.availability
        matching == SelectSeq(_items,
                              LAMBDA i : EqualsIgnoreCase(i.PartNumber, a.PartNumber))
    IN /\ a.items = matching
       /\ \A k \in 1..Len(matching) :
            \E g \in 1..Len(a.Branches) : a.Branches[g].Branch = OrEmpty(matching[k].Branch)
       /\ \A g, h \in 1..Len(a.Branches) :
            /\ \E k \in 1..Len(matching) : OrEmpty(matching[k].Branch) = a.Branches[g].Branch
            /\ a.Branches[g].Qty = QtyOf(matching, a.Branches[g].Branch)
            /\ g < h => FirstSeen(matching, a.Branches[g].Branch)
                          < FirstSeen(matching, a.Branches[h].Branch)
       /\ a.TotalAvailable = Sum([g \in 1..Len(a.Branches) |-> a.Branches[g].Qty])

\* three items of one part number, the first and the third of one branch,
\* the second without a branch
C28_Witness ==
  /\ PeakLookedUp
  /\ response.status = "Ok"
  /\ Len(response.availability.items) = 3
  /\ response.availability.items[1].Branch = response.availability.items[3].Branch
  /\ ~response.availability.items[2].Branch.has
  /\ response.availability.Branches =
       <<[Branch |-> S_DEN, Qty |-> 5], [Branch |-> <<>>, Qty |-> 0]>>
  /\ response.availability.TotalAvailable = 5

\* C29: a search that matches no item is no error of the engine, which
\* returns a total of 0 and an empty list; it is the controller that answers
\* it with the 'not found' failure
C29_EmptyIsNotAnError ==
  /\ Searched /\ Len(response.result.byAvailable) = 0 =>
       /\ response.result.Total = 0
       /\ response.result.Items = <<>>
       /\ response.status = "NotFound"
  /\ response.op = "search" /\ response.status = "NotFound" =>
       response.invoked /\ response.result.Total = 0

\* records are stored, the criteria match none of them
C29_Witness ==
  /\ Searched
  /\ Len(response.result.all) > 0
  /\ ~IsNullOrWhiteSpace(response.request.Criteria)
  /\ response.request.Branches = <<>>
  /\ Len(response.result.byCriteria) = 0
  /\ response.result.Total = 0
  /\ response.status = "NotFound"

Range(seq) == {seq[j] : j \in 1..Len(seq)}

\* `by` names a field other than PartNumber, in some letter case
NamesOtherField(by) ==
  EqualsIgnoreCase(by, S_Description) \/ EqualsIgnoreCase(by, S_SupplierSku)

\* C36: for every `by` the controller lets through, the engine filters on the
\* field `by` names: when `by` is Description or SupplierSku written in any
\* letter case, an item passes the criteria filter exactly when that field
\* (not PartNumber) contains the criteria
C36_AcceptedByNamesField ==
  (/\ Searched
   /\ ~IsNullOrWhiteSpace(response.request.Criteria)
   /\ NamesOtherField(response.request.By)) =>
    \A i \in Range(response.result.all) :
      (i \in Range(response.result.byCriteria))
        <=> OccursIgnoringCase(FieldNamed(response.request.By, i),
                               response.request.Criteria)

\* the number of pages the claim speaks of: ceil(total / size)
PageCount(total, size) == (total + size - 1) \div size

\* what the engine returns for the request being answered when only its page
\* index is changed, the records stored being the same
PageAt(p) ==
  SearchInventoryAsync([response.request EXCEPT !.Page = p], _items).Items

\* pages 0 .. p of the request being answered, one after the other
RECURSIVE PagesUpTo(_)
PagesUpTo(p) == IF p < 0 THEN <<>> ELSE PagesUpTo(p - 1) \o PageAt(p)

\* C38: with the records, the criteria, by, branches, onlyAvailable, sort and
\* size fixed, the pages 0 .. ceil(total / size) - 1 partition the filtered
\* result: one after the other they are the filtered, sorted sequence (every
\* item once), every page but the last has exactly size items, and no item is
\* on two pages
C38_PagesPartition ==
  Searched =>
    LET size == response.request.Size
        pages == PageCount(response.result.Total, size)
    IN /\ PagesUpTo(pages - 1) = response.result.sorted
       /\ \A p \in 0..(pages - 2) : Len(PageAt(p)) = size
       /\ \A p \in 0..(pages - 1) : \A r \in 0..(pages - 1) :
            p # r => Range(PageAt(p)) \cap Range(PageAt(r)) = {}
       /\ \A i \in Range(response.result.byAvailable) :
            Cardinality({p \in 0..(pages - 1) : i \in Range(PageAt(p))}) = 1

\* the last of two pages was asked for: it holds the one item the first page,
\* which is full, left over
C38_Witness ==
  /\ Searched
  /\ response.result.Total = 3
  /\ response.request.Size = 2
  /\ response.request.Page = 1
  /\ Len(response.result.Items) = 1
  /\ Len(PageAt(0)) = 2
  /\ response.result.Items = PageAt(1)

\* what a caller of the service sees of an answer: the status, and the total
\* and the items of the SearchResult
ResultOf(answer) ==
  [status |-> answer.status, Total |-> answer.result.Total,
   Items |-> answer.result.Items]

\* C35: the cache key is sound with respect to the engine: two queries with
\* equal cache keys (criteria that differ only in letter case or in white
\* space around them, branches in another order, a sort that is absent in
\* another way) get the same result from the engine over the same records
C35_KeySound ==
  (/\ response.op = "search"
   /\ response.params = ParamsOf(q2)
   /\ cacheKey(q1) = cacheKey(q2)) =>
    ResultOf(response) = ResultOf(SearchAnswer(ParamsOf(q1), _items))

\* the HTTP request behind handle h is answered in this step
Answered(h) == obs[h].st = "inflight" /\ obs'[h].st # "inflight"

\* C34: a failing request removes only the cache entry that was created for
\* it: when the request behind a handle is answered, with an error or not,
\* every entry that holds another handle stays in its cache as it was, also
\* the entry a newer request made for the same key after the failing
\* request's own entry had expired or been evicted
C34_FailureKeepsNewerEntry ==
  [][\A h \in Handles : Answered(h) =>
       \A c \in CacheNames : \A i \in 1..Len(CacheOf(c)) :
         CacheOf(c)[i].obs # h => InSeq(CacheOf(c)[i], CacheOf(c)')]_vars

\* the entries of a cache are in the order they were inserted in and their
\* expiry times do not decrease in that order
InsertionOrdered(cache) ==
  \A i, j \in 1..Len(cache) :
    i < j => /\ cache[i].born < cache[j].born
             /\ cache[i].expiry <= cache[j].expiry

\* a call has just stored a key and the capacity limit removed an entry
Evicting == ret'.op \in CacheNames /\ ret'.evicted # <<>>

\* C37: in each cache the entries are kept in insertion order and, the clock
\* not going back, their expiry times do not decrease in that order; so the
\* entry the capacity limit removes is the one inserted first, no entry left
\* expires before it, and a live entry is never removed while an expired one
\* stays stored
C37_EvictsEarliestExpiry ==
  /\ [](\A c \in CacheNames : InsertionOrdered(CacheOf(c)))
  /\ [][\A c \in CacheNames : (Evicting /\ ret'.op = c) =>
          LET before == CacheOf(c)
              after == CacheOf(c)'
              victim == MapGet(before, ret'.evicted[1])
          IN /\ MapHas(before, ret'.evicted[1])
             /\ victim = before[1]
             /\ \A i \in 1..Len(after) :
                  /\ victim.expiry <= after[i].expiry
                  /\ victim.expiry >= now => after[i].expiry >= now]_vars

\* the capacity limit has removed an expired entry: expired entries are still
\* stored, next to the live one that was just inserted
C37_Witness ==
  /\ ret.op \in CacheNames
  /\ ret.evicted # <<>>
  /\ ret.oldest = ret.evicted[1]
  /\ \E i \in 1..Len(CacheOf(ret.op)) : CacheOf(ret.op)[i].expiry < now
  /\ \E i \in 1..Len(CacheOf(ret.op)) : CacheOf(ret.op)[i].expiry > now
  /\ Len(CacheOf(ret.op)) = CACHE_MAX_ENTRIES

\* the timers of a toast that are pending in the browser
PendingFor(toast) == {t \in timeouts.live : t.id = toast.id}

\* C39: whatever toasts arrived, were dismissed or were cleared by their
\* timers, at most maxToasts toasts are displayed, the newest first; the
\* pending timers are those of the displayed toasts, one for each, due
\* autoClearMs after the toast arrived, so a toast that was dismissed or
\* dropped has no pending timer; and a toast arriving when maxToasts are
\* displayed drops the oldest
C39_TimersMatchToasts ==
  /\ [](/\ Len(appComponent.toasts) <= maxToasts
        /\ \A i, j \in 1..Len(appComponent.toasts) :
             i < j => appComponent.toasts[i].n > appComponent.toasts[j].n
        /\ {t.id : t \in timeouts.live} = ToastIds(appComponent.toasts)
        /\ {e.key : e \in Range(appComponent.timers)} = ToastIds(appComponent.toasts)
        /\ Cardinality(timeouts.live) = Len(appComponent.toasts)
        /\ \A i \in 1..Len(appComponent.toasts) :
             \E t \in PendingFor(appComponent.toasts[i]) :
               t.due = appComponent.toasts[i].at + autoClearMs)
  /\ [][(timeouts'.next > timeouts.next /\ Len(appComponent.toasts) = maxToasts) =>
          /\ Len(appComponent.toasts') = maxToasts
          /\ \A i \in 2..maxToasts : appComponent.toasts'[i] = appComponent.toasts[i - 1]]_vars

\* the last valid page of the table: max(0, totalPages - 1) with
\* totalPages = max(1, ceil(total / pageSize))
LastPage ==
  LET pages == (resultsTable.total + resultsTable.pageSize - 1) \div resultsTable.pageSize
  IN IF pages < 1 THEN 0 ELSE pages - 1

\* a page clamped to 0 .. LastPage
Clamped(page) == IF page < 0 THEN 0 ELSE IF page > LastPage THEN LastPage ELSE page

\* C31: goTo(page) clamps the page to [0, max(0, totalPages - 1)]; when the
\* clamped page differs from pageIndex it becomes pageIndex and is emitted
\* through pageChange, once; when it is pageIndex nothing is emitted and
\* nothing changes; so no page outside the range and never the current page
\* is emitted
C31_GoToClamps ==
  [][\A page \in -1..MaxGoTo : goTo(page) =>
       IF Clamped(page) = resultsTable.pageIndex
       THEN resultsTable' = resultsTable
       ELSE /\ resultsTable'.pageIndex = Clamped(page)
            /\ resultsTable'.pageChange = Append(resultsTable.pageChange, Clamped(page))
            /\ Clamped(page) \in 0..LastPage
            /\ Clamped(page) # resultsTable.pageIndex]_vars

\* a page beyond the last one was asked for and the last one was emitted,
\* after a page that needed no clamping
C31_Witness ==
  /\ resultsTable.total = 41
  /\ resultsTable.pageSize = 20
  /\ resultsTable.pageChange = <<1, 2>>
  /\ resultsTable.pageIndex = 2

\* the lookups that settled in a step and those of them that failed
Settled == resultsTable'.settled
Failures == SelectSeq(Settled, LAMBDA l : l.outcome # "ok")

\* the part number of the row with the key
PartOf(key) == (CHOOSE item \in TableItems : itemKey(item) = key).partNumber

\* C32: once a lookup of a row has settled, with data, with a failure
\* envelope or with a thrown error, peakLoading of the row is false; after a
\* success peakByPart of the row holds the data that was returned and no
\* error toast was sent; after a failure peakByPart of the row is null and
\* exactly one error toast, with the message of the failure, was sent
C32_LookupSettles ==
  [][resultsTable' # resultsTable =>
       /\ \A i \in 1..Len(Settled) :
            LET key == Settled[i].key
            IN /\ key \in DOMAIN resultsTable'.peakLoading
               /\ resultsTable'.peakLoading[key] = FALSE
               /\ key \in DOMAIN resultsTable'.peakByPart
               /\ resultsTable'.peakByPart[key] =
                    IF Settled[i].outcome = "ok" THEN PeakData(PartOf(key)) ELSE NoData
       /\ resultsTable'.toasts =
            resultsTable.toasts \o
              [i \in 1..Len(Failures) |->
                 [level |-> "error",
                  text |-> IF Failures[i].outcome = "failEnv" THEN "resp.message"
                           ELSE "err.message"]]]_vars

\* a lookup of a row has failed with an error after a lookup of the other
\* row had returned data: one error toast, the row without data and not
\* loading, the other row with its data
C32_Witness ==
  /\ Len(resultsTable.settled) = 1
  /\ resultsTable.settled[1].outcome = "error"
  /\ resultsTable.toasts = <<ErrorToast("error")>>
  /\ resultsTable.peakByPart[resultsTable.settled[1].key] = NoData
  /\ resultsTable.peakLoading[resultsTable.settled[1].key] = FALSE
  /\ \E key \in DOMAIN resultsTable.peakByPart : resultsTable.peakByPart[key].has
  /\ resultsTable.lookups = <<>>

\* a query is dispatched in this step while the previous one is in flight
Superseding == Len(gens') = Len(gens) + 1 /\ inner # NoInner

\* C33: the notice 'Previous search cancelled.' is sent only when a request
\* in flight is superseded by a newer dispatch, once for each supersession:
\* not when a request completes or fails, and not when the result stream is
\* unsubscribed or the component destroyed without a newer dispatch
C33_NoticeOnlyWhenSuperseded ==
  [][InfoCount(toasts') = InfoCount(toasts) + (IF Superseding THEN 1 ELSE 0)]_vars

====
